---- MODULE Spec2Model ----
(***************************************************************************)
(* A model of the HydroSim dam analysis tool.                              *)
(*                                                                         *)
(* The calculation engine (client/src/lib/damCalculations.ts) is a closed  *)
(* form over JavaScript numbers.  Numbers are modelled as exact rationals  *)
(* extended with the IEEE special values Infinity, -Infinity and NaN, so   *)
(* that division by zero, the `||` guard, Math.round and the thresholds    *)
(* behave as in the source; the binary rounding error of doubles (a few    *)
(* units in the 16th digit) is not modelled.  TLC's integers are 32 bits   *)
(* wide and the moments of a default dam exceed 2^31, so the rationals are *)
(* built on arbitrary-precision naturals.                                  *)
(***************************************************************************)
EXTENDS Integers, Sequences, FiniteSets, TLC

----------------------------------------------------------------------------
(* Arbitrary-precision naturals: little-endian sequences of limbs in       *)
(* 0..Base-1 with no most-significant zero limb; zero is << >>.            *)

Base == 10 * 100

RECURSIVE NatOf(_)
NatOf(i) == IF i = 0 THEN << >> ELSE << i % Base >> \o NatOf(i \div Base)

RECURSIVE Trim(_)
Trim(a) ==
    IF a = << >> THEN a
    ELSE IF a[Len(a)] = 0 THEN Trim(SubSeq(a, 1, Len(a) - 1)) ELSE a

RECURSIVE NatCmpAt(_, _, _)
NatCmpAt(a, b, i) ==
    IF i = 0 THEN 0
    ELSE IF a[i] < b[i] THEN -1
    ELSE IF a[i] > b[i] THEN 1
    ELSE NatCmpAt(a, b, i - 1)

\* -1, 0 or 1 as a < b, a = b or a > b
NatCmp(a, b) ==
    IF Len(a) < Len(b) THEN -1
    ELSE IF Len(a) > Len(b) THEN 1
    ELSE NatCmpAt(a, b, Len(a))

RECURSIVE NatAddC(_, _, _)
NatAddC(a, b, c) ==
    IF a = << >> /\ b = << >> THEN (IF c = 0 THEN << >> ELSE << c >>)
    ELSE LET x == IF a = << >> THEN 0 ELSE Head(a)
             y == IF b = << >> THEN 0 ELSE Head(b)
             s == x + y + c
         IN  << s % Base >> \o NatAddC(IF a = << >> THEN a ELSE Tail(a),
                                       IF b = << >> THEN b ELSE Tail(b),
                                       s \div Base)

NatAdd(a, b) == NatAddC(a, b, 0)

\* a - b for a >= b
RECURSIVE NatSubB(_, _, _)
NatSubB(a, b, c) ==
    IF a = << >> THEN << >>
    ELSE LET y == IF b = << >> THEN 0 ELSE Head(b)
             s == Head(a) - y - c
         IN  << IF s < 0 THEN s + Base ELSE s >>
             \o NatSubB(Tail(a), IF b = << >> THEN b ELSE Tail(b),
                        IF s < 0 THEN 1 ELSE 0)

NatSub(a, b) == Trim(NatSubB(a, b, 0))

RECURSIVE NatMulLimbC(_, _, _)
NatMulLimbC(a, d, c) ==
    IF a = << >> THEN (IF c = 0 THEN << >> ELSE << c >>)
    ELSE LET p == Head(a) * d + c
         IN  << p % Base >> \o NatMulLimbC(Tail(a), d, p \div Base)

NatMulLimb(a, d) == IF d = 0 THEN << >> ELSE NatMulLimbC(a, d, 0)

RECURSIVE NatMul(_, _)
NatMul(a, b) ==
    IF a = << >> \/ b = << >> THEN << >>
    ELSE LET rest == NatMul(a, Tail(b))
         IN  NatAdd(NatMulLimb(a, Head(b)),
                    IF rest = << >> THEN rest ELSE << 0 >> \o rest)

\* the largest d in lo..hi with d * b <= r (binary search)
RECURSIVE QuotSearch(_, _, _, _)
QuotSearch(r, b, lo, hi) ==
    IF lo >= hi THEN lo
    ELSE LET mid == (lo + hi + 1) \div 2
         IN  IF NatCmp(NatMulLimb(b, mid), r) <= 0
             THEN QuotSearch(r, b, mid, hi)
             ELSE QuotSearch(r, b, lo, mid - 1)

Limb(a, i) == IF i >= 1 /\ i <= Len(a) THEN a[i] ELSE 0

\* r \div b for b <= r < b * Base: exact from the limbs when b has one limb,
\* otherwise searched between the bounds the leading limbs give
QuotDigit(r, b) ==
    LET m == Len(b)
    IN  IF m = 1 THEN (Limb(r, 2) * Base + Limb(r, 1)) \div b[1]
        ELSE LET bt == b[m] * Base + b[m - 1]
                 rt == (Limb(r, m + 1) * Base + Limb(r, m)) * Base + Limb(r, m - 1)
                 hi == rt \div bt
             IN  QuotSearch(r, b, rt \div (bt + 1),
                            IF hi > Base - 1 THEN Base - 1 ELSE hi)

\* long division of a[1..i] (most significant limb first) by b # 0,
\* r the remainder carried in; [q, r] with q little-endian.  One step:
\* bring down the limb a[i], find the quotient digit d, subtract d * b and
\* go on with the rest, whose quotient gets d as its lowest limb
RECURSIVE NatDivFrom(_, _, _, _)
NatDivPut(rest, d) == [q |-> rest.q \o << d >>, r |-> rest.r]

NatDivDigit(a, b, i, r1, d) ==
    NatDivPut(NatDivFrom(a, b, i - 1,
                         IF d = 0 THEN r1 ELSE NatSub(r1, NatMulLimb(b, d))),
              d)

NatDivStep(a, b, i, r1) ==
    NatDivDigit(a, b, i, r1, IF NatCmp(r1, b) < 0 THEN 0 ELSE QuotDigit(r1, b))

NatDivFrom(a, b, i, r) ==
    IF i = 0 THEN [q |-> << >>, r |-> r]
    ELSE NatDivStep(a, b, i, Trim(<< a[i] >> \o r))

NatDivTrim(qr) == [q |-> Trim(qr.q), r |-> qr.r]

NatDivMod(a, b) == NatDivTrim(NatDivFrom(a, b, Len(a), << >>))

----------------------------------------------------------------------------
(* JavaScript numbers: a finite value is the exact rational (-1)^neg * n/d  *)
(* (n, d naturals, d # 0, not necessarily in lowest terms); the specials   *)
(* are Infinity, -Infinity and NaN.  The sign of zero is not modelled: the *)
(* only zero divisor of the calculator, 3 * (topWidth + bottomWidth), is   *)
(* +0 whenever its operands are not both -0.                               *)

\* n and d without the low zero limbs they share (a common power of Base)
RECURSIVE Strip(_, _)
Strip(n, d) ==
    IF n # << >> /\ Head(n) = 0 /\ Head(d) = 0 THEN Strip(Tail(n), Tail(d))
    ELSE << n, d >>

Fin(neg, n, d) ==
    LET nd == IF n = << >> THEN << n, << 1 >> >> ELSE Strip(n, d)
    IN  [d |-> nd[2], n |-> nd[1], neg |-> (neg /\ n # << >>), k |-> "fin"]

Inf(neg) == [d |-> << 1 >>, n |-> << >>, neg |-> neg, k |-> "inf"]

NaN == [d |-> << 1 >>, n |-> << >>, neg |-> FALSE, k |-> "nan"]

\* the decimal literal i / scale (scale > 0)
Dec(i, scale) == Fin(i < 0, NatOf(IF i < 0 THEN -i ELSE i), NatOf(scale))

IsNaN(x) == x.k = "nan"

IsInf(x) == x.k = "inf"

IsFinite(x) == x.k = "fin"

IsZero(x) == x.k = "fin" /\ x.n = << >>

\* x * y
Mul(x, y) ==
    IF IsNaN(x) \/ IsNaN(y) THEN NaN
    ELSE IF IsInf(x) \/ IsInf(y)
         THEN (IF IsZero(x) \/ IsZero(y) THEN NaN ELSE Inf(x.neg # y.neg))
    ELSE Fin(x.neg # y.neg, NatMul(x.n, y.n), NatMul(x.d, y.d))

\* x / y
Div(x, y) ==
    IF IsNaN(x) \/ IsNaN(y) THEN NaN
    ELSE IF IsInf(x) THEN (IF IsInf(y) THEN NaN ELSE Inf(x.neg # y.neg))
    ELSE IF IsInf(y) THEN Fin(FALSE, << >>, << 1 >>)
    ELSE IF IsZero(y) THEN (IF IsZero(x) THEN NaN ELSE Inf(x.neg))
    ELSE Fin(x.neg # y.neg, NatMul(x.n, y.d), NatMul(x.d, y.n))

\* x + y
Add(x, y) ==
    IF IsNaN(x) \/ IsNaN(y) THEN NaN
    ELSE IF IsInf(x) THEN (IF IsInf(y) /\ y.neg # x.neg THEN NaN ELSE x)
    ELSE IF IsInf(y) THEN y
    ELSE LET a == NatMul(x.n, y.d)
             b == NatMul(y.n, x.d)
             d == NatMul(x.d, y.d)
         IN  IF x.neg = y.neg THEN Fin(x.neg, NatAdd(a, b), d)
             ELSE IF NatCmp(a, b) >= 0 THEN Fin(x.neg, NatSub(a, b), d)
             ELSE Fin(y.neg, NatSub(b, a), d)

\* Math.pow(x, 2)
MathPow2(x) == Mul(x, x)

\* -1, 0 or 1 for two numbers neither of which is NaN
Cmp(x, y) ==
    IF IsInf(x) THEN (IF IsInf(y) /\ y.neg = x.neg THEN 0
                      ELSE IF x.neg THEN -1 ELSE 1)
    ELSE IF IsInf(y) THEN (IF y.neg THEN 1 ELSE -1)
    ELSE IF x.neg # y.neg THEN (IF x.neg THEN -1 ELSE 1)
    ELSE LET c == NatCmp(NatMul(x.n, y.d), NatMul(y.n, x.d))
         IN  IF x.neg THEN -c ELSE c

\* the comparisons >=, >, === of the language: false when either side is NaN
Ge(x, y) == ~IsNaN(x) /\ ~IsNaN(y) /\ Cmp(x, y) >= 0

Gt(x, y) == ~IsNaN(x) /\ ~IsNaN(y) /\ Cmp(x, y) > 0

NumEq(x, y) == ~IsNaN(x) /\ ~IsNaN(y) /\ Cmp(x, y) = 0

\* the same value: NumEq, or both NaN
SameNum(x, y) == (IsNaN(x) /\ IsNaN(y)) \/ NumEq(x, y)

\* the nearest integer to n / d, ties upwards: (2n + d) \div 2d
RoundUp(n, d) ==
    Fin(FALSE, NatDivMod(NatAdd(NatMulLimb(n, 2), d), NatMulLimb(d, 2)).q, << 1 >>)

\* minus the quotient, one more when there is a remainder
RoundCeil(qr) ==
    Fin(TRUE, IF qr.r = << >> THEN qr.q ELSE NatAdd(qr.q, << 1 >>), << 1 >>)

\* the nearest integer to -(n2 / 2d), ties upwards: -ceil((n2 - d) / 2d),
\* and 0 when n2 <= d
RoundDown(n2, d) ==
    IF NatCmp(n2, d) <= 0 THEN Fin(FALSE, << >>, << 1 >>)
    ELSE RoundCeil(NatDivMod(NatSub(n2, d), NatMulLimb(d, 2)))

\* Math.round(x): the integer nearest to x, ties towards +Infinity;
\* Infinity, -Infinity and NaN are returned as they are
MathRound(x) ==
    IF ~IsFinite(x) THEN x
    ELSE IF ~x.neg THEN RoundUp(x.n, x.d)
    ELSE RoundDown(NatMulLimb(x.n, 2), x.d)

\* one decimal kept instead of two
Round2_oneDecimal(x) == Div(MathRound(Mul(x, Dec(10, 1))), Dec(10, 1))

\* Math.round(x * 100) / 100
Round2(x) == Div(MathRound(Mul(x, Dec(100, 1))), Dec(100, 1))

\* a value is falsy when it is 0 or NaN
Truthy(x) == ~IsNaN(x) /\ ~IsZero(x)

\* x || y
OrElse(x, y) == IF Truthy(x) THEN x ELSE y

----------------------------------------------------------------------------
(* The calculation engine: client/src/lib/damCalculations.ts               *)

GRAVITY == Dec(981, 100)

WATER_DENSITY == Dec(1000, 1)

CONCRETE_DENSITY == Dec(2400, 1)

HOURS_PER_YEAR == Dec(8760, 1)

\* a slip of sign: ((topWidth - bottomWidth) / 2) * height
CrossSectionalArea_difference(topWidth, bottomWidth, height) ==
    Mul(Div(Add(topWidth, Mul(Dec(-1, 1), bottomWidth)), Dec(2, 1)), height)

\* ((topWidth + bottomWidth) / 2) * height
CrossSectionalArea(topWidth, bottomWidth, height) ==
    Mul(Div(Add(topWidth, bottomWidth), Dec(2, 1)), height)

\* the volume chained from the area as it is displayed (rounded)
DamVolume_fromRounded(crossSectionalArea, length) ==
    Mul(Round2(crossSectionalArea), length)

\* crossSectionalArea * length
DamVolume(crossSectionalArea, length) == Mul(crossSectionalArea, length)

\* the 5% allowance for waste left out
ConcreteNeeded_noWaste(damVolume) == damVolume

\* damVolume * 1.05
ConcreteNeeded(damVolume) == Mul(damVolume, Dec(105, 100))

\* reservoirLength * length * waterDepth
ReservoirVolume(reservoirLength, length, waterDepth) ==
    Mul(Mul(reservoirLength, length), waterDepth)

\* WATER_DENSITY * GRAVITY * flowRate * headPressure
TheoreticalPower(flowRate, headPressure) ==
    Mul(Mul(Mul(WATER_DENSITY, GRAVITY), flowRate), headPressure)

\* the efficiency applied as a divisor
ActualPower_divided(theoreticalPower, efficiency) ==
    Div(theoreticalPower, efficiency)

\* theoreticalPower * efficiency
ActualPower(theoreticalPower, efficiency) == Mul(theoreticalPower, efficiency)

\* (actualPower / 1000) * HOURS_PER_YEAR
AnnualEnergy(actualPower) ==
    Mul(Div(actualPower, Dec(1000, 1)), HOURS_PER_YEAR)

\* the factor 0.5 of the triangular pressure diagram left out
HydrostaticForce_noHalf(waterDepth, length) ==
    Mul(Mul(Mul(WATER_DENSITY, GRAVITY), MathPow2(waterDepth)), length)

\* 0.5 * WATER_DENSITY * GRAVITY * Math.pow(waterDepth, 2) * length
HydrostaticForce(waterDepth, length) ==
    Mul(Mul(Mul(Mul(Dec(5, 10), WATER_DENSITY), GRAVITY),
            MathPow2(waterDepth)), length)

\* the lever arm taken as the whole depth instead of a third of it
OverturningMoment_fullDepth(hydrostaticForce, waterDepth) ==
    Mul(hydrostaticForce, waterDepth)

\* hydrostaticForce * (waterDepth / 3)
OverturningMoment(hydrostaticForce, waterDepth) ==
    Mul(hydrostaticForce, Div(waterDepth, Dec(3, 1)))

\* damVolume * CONCRETE_DENSITY * GRAVITY
DamWeight(damVolume) == Mul(Mul(damVolume, CONCRETE_DENSITY), GRAVITY)

\* (bottomWidth * (bottomWidth + 2 * topWidth)) / (3 * (topWidth + bottomWidth))
CentroidFromToe(topWidth, bottomWidth) ==
    Div(Mul(bottomWidth, Add(bottomWidth, Mul(Dec(2, 1), topWidth))),
        Mul(Dec(3, 1), Add(topWidth, bottomWidth)))

\* damWeight * centroidFromToe
RestoringMoment(damWeight, centroidFromToe) == Mul(damWeight, centroidFromToe)

\* the division without its guard
StabilityFactor_unguarded(restoringMoment, overturningMoment) ==
    Div(restoringMoment, overturningMoment)

\* the ratio upside down
StabilityFactor_inverted(restoringMoment, overturningMoment) ==
    Div(overturningMoment, OrElse(restoringMoment, Dec(1, 1)))

\* restoringMoment / (overturningMoment || 1)
StabilityFactor(restoringMoment, overturningMoment) ==
    Div(restoringMoment, OrElse(overturningMoment, Dec(1, 1)))

\* the thresholds taken as strict bounds
SafetyStatus_strict(stabilityFactor) ==
    IF Gt(stabilityFactor, Dec(20, 10)) THEN "safe"
    ELSE IF Gt(stabilityFactor, Dec(15, 10)) THEN "warning"
    ELSE "critical"

\* the lower threshold tested first, so that safe is never reached
SafetyStatus_misordered(stabilityFactor) ==
    IF Ge(stabilityFactor, Dec(15, 10)) THEN "warning"
    ELSE IF Ge(stabilityFactor, Dec(20, 10)) THEN "safe"
    ELSE "critical"

\* no final else: a factor that is not a number gets no status
SafetyStatus_noDefault(stabilityFactor) ==
    IF Ge(stabilityFactor, Dec(20, 10)) THEN "safe"
    ELSE IF Ge(stabilityFactor, Dec(15, 10)) THEN "warning"
    ELSE IF Gt(Dec(15, 10), stabilityFactor) THEN "critical"
    ELSE "undefined"

\* the if / else if / else that sets safetyStatus
SafetyStatus(stabilityFactor) ==
    IF Ge(stabilityFactor, Dec(20, 10)) THEN "safe"
    ELSE IF Ge(stabilityFactor, Dec(15, 10)) THEN "warning"
    ELSE "critical"

\* the local constants of calculateDamResults when it reaches its return
DamLocals(params) ==
    LET crossSectionalArea ==
            CrossSectionalArea(params.topWidth, params.bottomWidth, params.height)
        damVolume         == DamVolume(crossSectionalArea, params.length)
        concreteNeeded    == ConcreteNeeded(damVolume)
        reservoirVolume   ==
            ReservoirVolume(params.reservoirLength, params.length, params.waterDepth)
        headPressure      == params.waterDepth
        theoreticalPower  == TheoreticalPower(params.flowRate, headPressure)
        actualPower       == ActualPower(theoreticalPower, params.efficiency)
        annualEnergy      == AnnualEnergy(actualPower)
        hydrostaticForce  == HydrostaticForce(params.waterDepth, params.length)
        overturningMoment == OverturningMoment(hydrostaticForce, params.waterDepth)
        damWeight         == DamWeight(damVolume)
        centroidFromToe   == CentroidFromToe(params.topWidth, params.bottomWidth)
        restoringMoment   == RestoringMoment(damWeight, centroidFromToe)
        stabilityFactor   == StabilityFactor(restoringMoment, overturningMoment)
    IN  [crossSectionalArea |-> crossSectionalArea,
         damVolume          |-> damVolume,
         concreteNeeded     |-> concreteNeeded,
         reservoirVolume    |-> reservoirVolume,
         headPressure       |-> headPressure,
         theoreticalPower   |-> theoreticalPower,
         actualPower        |-> actualPower,
         annualEnergy       |-> annualEnergy,
         hydrostaticForce   |-> hydrostaticForce,
         overturningMoment  |-> overturningMoment,
         damWeight          |-> damWeight,
         centroidFromToe    |-> centroidFromToe,
         restoringMoment    |-> restoringMoment,
         stabilityFactor    |-> stabilityFactor,
         safetyStatus       |-> SafetyStatus(stabilityFactor)]

\* the record of the return statement, built from the locals
DamReturn(l) ==
    [crossSectionalArea |-> Round2(l.crossSectionalArea),
     damVolume          |-> Round2(l.damVolume),
     concreteNeeded     |-> Round2(l.concreteNeeded),
     reservoirVolume    |-> MathRound(l.reservoirVolume),
     headPressure       |-> Round2(l.headPressure),
     theoreticalPower   |-> MathRound(l.theoreticalPower),
     actualPower        |-> MathRound(l.actualPower),
     annualEnergy       |-> MathRound(l.annualEnergy),
     hydrostaticForce   |-> MathRound(l.hydrostaticForce),
     overturningMoment  |-> MathRound(l.overturningMoment),
     stabilityFactor    |-> Round2(l.stabilityFactor),
     safetyStatus       |-> l.safetyStatus]

calculateDamResults(params) == DamReturn(DamLocals(params))

\* client/src/pages/Home.tsx: the parameters the application starts from
defaultParameters ==
    [topWidth        |-> Dec(10, 1),
     bottomWidth     |-> Dec(50, 1),
     height          |-> Dec(20, 1),
     length          |-> Dec(200, 1),
     reservoirLength |-> Dec(1000, 1),
     waterDepth      |-> Dec(20, 1),
     flowRate        |-> Dec(20, 1),
     efficiency      |-> Dec(85, 100)]

----------------------------------------------------------------------------
(* A caller of the calculator.  It holds one parameter record (any record  *)
(* of numbers: the calculator validates nothing), invokes                  *)
(* calculateDamResults on it and keeps what was returned, together with    *)
(* the invocation's local constants.                                       *)

\* the bottom widths explored are 5, 10, ... 5 * MaxWidthSteps, and 50
MaxWidthSteps == 2

TopWidths == {Dec(2, 1), Dec(10, 1)}

BottomWidths == {Dec(5 * i, 1) : i \in 1..MaxWidthSteps} \cup {Dec(50, 1)}

\* with topWidth 2, bottomWidth 5 and waterDepth 3 the stability factor is
\* 4 * height: 1.496, 1.5, 1.996 and 2.0 for the heights 0.374 .. 0.5
Heights ==
    {Dec(1, 1000), Dec(374, 1000), Dec(375, 1000), Dec(499, 1000),
     Dec(5, 10), Dec(20, 1)}

Lengths == {Dec(1, 1), Dec(200, 1)}

ReservoirLengths == {Dec(1, 10), Dec(1000, 1)}

WaterDepths == {NaN, Dec(0, 1), Dec(1, 100), Dec(3, 1), Dec(20, 1)}

FlowRates == {Dec(1, 10), Dec(20, 1)}

Efficiencies == {Dec(85, 100), Dec(1, 1)}

Inputs ==
    [topWidth        : TopWidths,
     bottomWidth     : BottomWidths,
     height          : Heights,
     length          : Lengths,
     reservoirLength : ReservoirLengths,
     waterDepth      : WaterDepths,
     flowRate        : FlowRates,
     efficiency      : Efficiencies]

NotReturned == "not returned"

VARIABLES
    params,   \* the record the caller passes to calculateDamResults
    pc,       \* "ready": not yet invoked; "returned": the call has returned
    locals,   \* the local constants of the invocation (NotReturned before)
    results   \* the record returned (NotReturned before)

calculatorVars == << params, pc, locals, results >>

\* Several callers, each with a record of its own, whose invocations may
\* overlap in any way.  An invocation is taken in three steps: the
\* destructuring of its argument, the chain of constants, the return.
VARIABLES
    callerParams,  \* the record each caller passes
    callerPc,      \* "ready", "entered", "computed" or "returned"
    frames,        \* the activation records: [inputs, locals], NoFrame before the call
    callerResult   \* the record each caller got back (NotReturned before)

callerVars == << callerParams, callerPc, frames, callerResult >>

\* The Home page and its ParametersPanel (client/src/pages/Home.tsx,
\* client/src/components/ParametersPanel.tsx).
VARIABLES
    parameters,  \* Home: the state set by setParameters
    rendered,    \* the props Home handed to its panels when it last rendered
    inputValue,  \* NumberInput: the text of each of the seven inputs
    focus,       \* the input that has the keyboard focus, or NoFocus
    edits,       \* how many times a text has been typed
    previousWrites  \* the fields that the last handler wrote into the
                    \* record it was given as parameters

\* The DamViewer of the page (client/src/components/DamViewer.tsx): its
\* props and state, the three.js scene and the loads of /Dam.glb under way.
VARIABLES
    viewerParameters,  \* the parameters prop of the last rendering
    useGLB,            \* useState(true)
    glbLoaded,         \* useState(false)
    effectDue,         \* the dam effect of the last rendering has yet to run
    scene,             \* the dam objects among the children of the scene
    damMeshRef,        \* damMeshRef.current
    glbModelRef,       \* glbModelRef.current
    pendingLoads,      \* the loader.load calls that have not called back
    created,           \* how many dam objects and loads have been made
    viewerEvents,      \* how many switches and parameter changes there were
    viewerLast         \* what happened last in the viewer

viewerVars ==
    << viewerParameters, useGLB, glbLoaded, effectDue, scene, damMeshRef,
       glbModelRef, pendingLoads, created, viewerEvents, viewerLast >>

\* The ExportPanel of the page (client/src/components/ExportPanel.tsx).
VARIABLES
    isExporting,    \* useState<string | null>(null)
    exportRunning,  \* the export handler that is running, or Null
    downloads       \* the names of the files saved so far

exportVars == << isExporting, exportRunning, downloads >>

panelVars == << viewerVars, exportVars >>

pageVars ==
    << parameters, rendered, inputValue, focus, edits, previousWrites >>

homeVars == << pageVars, panelVars >>

\* The server: the routes of server/routes.ts over the simulations table
\* of shared/schema.ts, reached through server/storage.ts.
VARIABLES
    simulations,   \* the rows of the simulations table
    nextId,        \* the rows inserted so far, plus one (ids are never reused)
    lastRequest,   \* the request handled last
    lastRun,       \* whether its handler body ran, and the storage calls made
    lastResponse,  \* the response sent to it
    pendingDeletes, \* the DELETE handlers waiting for storage.deleteSimulation
    deletedIds     \* the ids of the rows that were removed

serverVars ==
    << simulations, nextId, lastRequest, lastRun, lastResponse, pendingDeletes,
       deletedIds >>

vars == << calculatorVars, callerVars, homeVars, serverVars >>

NoSession == "no session"

\* JSON values as they arrive in a request body and go into a column
Undefined == [type |-> "undefined"]

Null == [type |-> "null"]

Str(s) == [type |-> "string", value |-> s]

Obj(o) == [type |-> "object", value |-> o]

NoBody == [name |-> Undefined, parameters |-> Undefined, results |-> Undefined]

NoRequest == [route |-> "none", session |-> NoSession, body |-> NoBody, id |-> 0]

NoRun == [handler |-> FALSE, calls |-> << >>]

NoResponse == [status |-> 0, body |-> Undefined]

\* the server has started and has handled no request
ServerStarted ==
    /\ simulations = {}
    /\ nextId = 1
    /\ lastRequest = NoRequest
    /\ lastRun = NoRun
    /\ lastResponse = NoResponse
    /\ pendingDeletes = << >>
    /\ deletedIds = {}

\* what the variables of the page hold while it is not on screen
NotMounted == [mounted |-> FALSE]

NoFocus == "no focus"

\* the viewer and the export panel are not on screen
PanelsNotMounted ==
    /\ viewerParameters = NotMounted
    /\ useGLB = FALSE
    /\ glbLoaded = FALSE
    /\ effectDue = FALSE
    /\ scene = {}
    /\ damMeshRef = Null
    /\ glbModelRef = Null
    /\ pendingLoads = {}
    /\ created = 0
    /\ viewerEvents = 0
    /\ viewerLast = "none"
    /\ isExporting = Null
    /\ exportRunning = Null
    /\ downloads = << >>

\* the page itself, without its viewer and its export panel
PageNotMounted ==
    /\ parameters = NotMounted
    /\ rendered = NotMounted
    /\ inputValue = NotMounted
    /\ focus = NoFocus
    /\ edits = 0
    /\ previousWrites = {}

\* the page is not on screen
HomeNotMounted == PageNotMounted /\ PanelsNotMounted

\* the number of callers
MaxCallers == 2

Callers == 1..MaxCallers

NoFrame == [inputs |-> NotReturned, locals |-> NotReturned]

\* no caller has invoked the calculator
CallersReady ==
    /\ callerPc = [c \in Callers |-> "ready"]
    /\ frames = [c \in Callers |-> NoFrame]
    /\ callerResult = [c \in Callers |-> NotReturned]

Init ==
    /\ params \in Inputs
    /\ pc = "ready"
    /\ locals = NotReturned
    /\ results = NotReturned
    /\ callerParams = [c \in Callers |-> defaultParameters]
    /\ CallersReady
    /\ HomeNotMounted
    /\ ServerStarted

\* calculateDamResults(params), from entry to return
Calculate ==
    /\ pc = "ready"
    /\ LET l == DamLocals(params)
       IN  /\ locals' = l
           /\ results' = DamReturn(l)
    /\ pc' = "returned"
    /\ UNCHANGED << params, callerVars, homeVars, serverVars >>

Next == Calculate

Spec == Init /\ [][Next]_vars

Returned == pc = "returned"

----------------------------------------------------------------------------
(* Vocabulary of the properties                                            *)

Zero == Dec(0, 1)

Positive(x) == Gt(x, Zero)

AllPositive(p) ==
    /\ Positive(p.topWidth) /\ Positive(p.bottomWidth) /\ Positive(p.height)
    /\ Positive(p.length) /\ Positive(p.reservoirLength)
    /\ Positive(p.waterDepth) /\ Positive(p.flowRate) /\ Positive(p.efficiency)

\* x is a whole number
IsWhole(x) == IsFinite(x) /\ NatDivMod(x.n, x.d).r = << >>

\* r is x rounded to a multiple of 1 / scale: a multiple of 1 / scale at most
\* half a unit away from x (Infinity and NaN have no rounding but themselves)
RoundedTo(r, x, scale) ==
    IF ~IsFinite(x) THEN r = x
    ELSE /\ IsWhole(Mul(r, Dec(scale, 1)))
         /\ Ge(Add(r, Dec(1, 2 * scale)), x)
         /\ Ge(Add(x, Dec(1, 2 * scale)), r)

StatusRank(status) ==
    IF status = "critical" THEN 0 ELSE IF status = "warning" THEN 1 ELSE 2

----------------------------------------------------------------------------
(* C1: the safety status is decided by fixed thresholds on the stability   *)
(* factor the invocation computed: safe exactly when it is >= 2.0, warning *)
(* exactly when it is >= 1.5 and < 2.0, critical in every other case; one  *)
(* of the three values is always returned.                                 *)
C1_StatusByThresholds ==
    Returned =>
        LET sf == locals.stabilityFactor
            st == results.safetyStatus
        IN  /\ st \in {"safe", "warning", "critical"}
            /\ (st = "safe") <=> Ge(sf, Dec(2, 1))
            /\ (st = "warning") <=> (Ge(sf, Dec(3, 2)) /\ ~Ge(sf, Dec(2, 1)))
            /\ (st = "critical") <=> ~Ge(sf, Dec(3, 2))

\* a stability factor of exactly 2.0 has been classified safe
C1_Witness ==
    /\ Returned
    /\ NumEq(locals.stabilityFactor, Dec(2, 1))
    /\ results.safetyStatus = "safe"

(* C2, as claimed: the safety status follows from the returned (rounded)   *)
(* stabilityFactor field: >= 2.0 comes with safe, >= 1.5 and < 2.0 with    *)
(* warning, anything lower with critical.                                  *)
C2_StatusByReturnedFactor ==
    Returned =>
        LET sf == results.stabilityFactor
        IN  results.safetyStatus =
                IF Ge(sf, Dec(2, 1)) THEN "safe"
                ELSE IF Ge(sf, Dec(3, 2)) THEN "warning"
                ELSE "critical"

(* C2, amended: the returned stabilityFactor decides the status except on  *)
(* the two thresholds: above 2.0 it comes with safe, strictly between 1.5  *)
(* and 2.0 with warning, below 1.5 (or NaN) with critical; a returned 2.0  *)
(* comes with safe or warning and a returned 1.5 with warning or critical. *)
C2_StatusByReturnedFactorOffThresholds ==
    Returned =>
        LET sf == results.stabilityFactor
            st == results.safetyStatus
        IN  /\ Gt(sf, Dec(2, 1)) => st = "safe"
            /\ (Gt(sf, Dec(3, 2)) /\ Gt(Dec(2, 1), sf)) => st = "warning"
            /\ (Gt(Dec(3, 2), sf) \/ IsNaN(sf)) => st = "critical"
            /\ NumEq(sf, Dec(2, 1)) => st \in {"safe", "warning"}
            /\ NumEq(sf, Dec(3, 2)) => st \in {"warning", "critical"}

\* a returned stabilityFactor of 2.0 that came with warning
C2_Witness ==
    /\ Returned
    /\ NumEq(results.stabilityFactor, Dec(2, 1))
    /\ results.safetyStatus = "warning"

(* C3: with waterDepth = 0 and the other inputs positive the overturning   *)
(* moment is 0, the guard divides by 1, and the returned stability factor  *)
(* is restoringMoment / 1 rounded to 2 decimals: finite, not Infinity, not *)
(* NaN.                                                                    *)
C3_ZeroDepthGuarded ==
    (/\ Returned
     /\ IsZero(params.waterDepth)
     /\ AllPositive([params EXCEPT !.waterDepth = Dec(1, 1)]))
    => /\ IsZero(locals.overturningMoment)
       /\ SameNum(results.stabilityFactor,
                  Round2(Div(locals.restoringMoment, Dec(1, 1))))
       /\ IsFinite(results.stabilityFactor)

\* a dam with no water has returned a positive finite stability factor
C3_Witness ==
    /\ Returned
    /\ IsZero(params.waterDepth)
    /\ AllPositive([params EXCEPT !.waterDepth = Dec(1, 1)])
    /\ IsFinite(results.stabilityFactor)
    /\ Positive(results.stabilityFactor)

(* C4: whenever the overturning moment is not exactly zero the stability   *)
(* factor is restoringMoment / overturningMoment, with damWeight =         *)
(* damVolume x 2400 x 9.81, centroidFromToe = bottomWidth x (bottomWidth   *)
(* + 2 x topWidth) / (3 x (topWidth + bottomWidth)) and restoringMoment =  *)
(* damWeight x centroidFromToe; the divisor 1 is substituted only for an   *)
(* overturning moment of exactly zero.                                     *)
C4_GuardOnlyAtZero ==
    (Returned /\ ~IsZero(locals.overturningMoment)) =>
        LET damWeight == Mul(Mul(locals.damVolume, Dec(2400, 1)), Dec(981, 100))
            centroidFromToe ==
                Div(Mul(params.bottomWidth,
                        Add(params.bottomWidth, Mul(Dec(2, 1), params.topWidth))),
                    Mul(Dec(3, 1), Add(params.topWidth, params.bottomWidth)))
            restoringMoment == Mul(damWeight, centroidFromToe)
        IN  SameNum(locals.stabilityFactor,
                    Div(restoringMoment, locals.overturningMoment))

(* C5, as claimed: for positive inputs the returned crossSectionalArea,    *)
(* damVolume, concreteNeeded, reservoirVolume and hydrostaticForce fields  *)
(* are each strictly greater than zero.                                    *)
C5_ReturnedFieldsPositive ==
    (Returned /\ AllPositive(params)) =>
        /\ Positive(results.crossSectionalArea)
        /\ Positive(results.damVolume)
        /\ Positive(results.concreteNeeded)
        /\ Positive(results.reservoirVolume)
        /\ Positive(results.hydrostaticForce)

\* r, the rounding of the positive value x to a multiple of 1 / scale, is
\* not negative, and is zero exactly when x is below half a unit
RoundedPositive(r, x, scale) ==
    /\ Positive(x)
    /\ Ge(r, Zero)
    /\ IsZero(r) <=> Gt(Dec(1, 2 * scale), x)

(* C5, amended: for positive inputs the five quantities are strictly       *)
(* greater than zero as computed, before rounding; the returned fields are *)
(* never negative, and a returned field is 0 exactly when the computed     *)
(* value is below half its rounding unit.                                  *)
C5_ComputedPositiveReturnedNonNegative ==
    (Returned /\ AllPositive(params)) =>
        /\ RoundedPositive(results.crossSectionalArea, locals.crossSectionalArea, 100)
        /\ RoundedPositive(results.damVolume, locals.damVolume, 100)
        /\ RoundedPositive(results.concreteNeeded, locals.concreteNeeded, 100)
        /\ RoundedPositive(results.reservoirVolume, locals.reservoirVolume, 1)
        /\ RoundedPositive(results.hydrostaticForce, locals.hydrostaticForce, 1)

\* a positive cross-sectional area has been returned as 0
C5_Witness ==
    /\ Returned
    /\ AllPositive(params)
    /\ Positive(locals.crossSectionalArea)
    /\ IsZero(results.crossSectionalArea)

(* C6: with the other seven parameters fixed at positive values, the       *)
(* returned stabilityFactor does not decrease when bottomWidth grows, and  *)
(* the safety status never moves from safe towards critical.               *)
C6_MonotoneInBottomWidth ==
    (Returned /\ AllPositive(params)) =>
        \A b2 \in BottomWidths :
            Ge(b2, params.bottomWidth) =>
                LET wider == calculateDamResults([params EXCEPT !.bottomWidth = b2])
                IN  /\ Ge(wider.stabilityFactor, results.stabilityFactor)
                    /\ StatusRank(wider.safetyStatus)
                           >= StatusRank(results.safetyStatus)

\* a dam returned as critical whose wider version is returned as safe, with
\* a larger stability factor
C6_Witness ==
    /\ Returned
    /\ AllPositive(params)
    /\ results.safetyStatus = "critical"
    /\ \E b2 \in BottomWidths :
           /\ Gt(b2, params.bottomWidth)
           /\ LET wider == calculateDamResults([params EXCEPT !.bottomWidth = b2])
              IN  /\ Gt(wider.stabilityFactor, results.stabilityFactor)
                  /\ wider.safetyStatus = "safe"

\* the seven inputs of the worked example
IsWorkedExample(p) ==
    /\ p.topWidth = Dec(10, 1) /\ p.bottomWidth = Dec(50, 1)
    /\ p.height = Dec(20, 1) /\ p.length = Dec(200, 1)
    /\ p.waterDepth = Dec(20, 1) /\ p.flowRate = Dec(20, 1)
    /\ p.efficiency = Dec(85, 100)

(* C7: the worked example, whose inputs are the application's default      *)
(* parameters, returns crossSectionalArea 600, damVolume 120000,           *)
(* hydrostaticForce 392400000, theoreticalPower 3924000, actualPower       *)
(* 3335400 and annualEnergy 29218104.                                      *)
C7_WorkedExample ==
    /\ IsWorkedExample(defaultParameters)
    /\ (Returned /\ IsWorkedExample(params)) =>
           /\ NumEq(results.crossSectionalArea, Dec(600, 1))
           /\ NumEq(results.damVolume, Dec(120000, 1))
           /\ NumEq(results.hydrostaticForce, Dec(392400000, 1))
           /\ NumEq(results.theoreticalPower, Dec(3924000, 1))
           /\ NumEq(results.actualPower, Dec(3335400, 1))
           /\ NumEq(results.annualEnergy, Dec(29218104, 1))

\* the calculator has returned for the default parameters
C7_Witness ==
    /\ Returned
    /\ params = defaultParameters
    /\ NumEq(results.annualEnergy, Dec(29218104, 1))

(* C9, as claimed: crossSectionalArea, damVolume, concreteNeeded,          *)
(* reservoirVolume and headPressure are rounded to 2 decimals;             *)
(* hydrostaticForce, theoreticalPower, actualPower, annualEnergy and       *)
(* overturningMoment to whole units; stabilityFactor to 2 decimals.        *)
C9_RoundedByKind ==
    Returned =>
        /\ RoundedTo(results.crossSectionalArea, locals.crossSectionalArea, 100)
        /\ RoundedTo(results.damVolume, locals.damVolume, 100)
        /\ RoundedTo(results.concreteNeeded, locals.concreteNeeded, 100)
        /\ RoundedTo(results.reservoirVolume, locals.reservoirVolume, 100)
        /\ RoundedTo(results.headPressure, locals.headPressure, 100)
        /\ RoundedTo(results.hydrostaticForce, locals.hydrostaticForce, 1)
        /\ RoundedTo(results.theoreticalPower, locals.theoreticalPower, 1)
        /\ RoundedTo(results.actualPower, locals.actualPower, 1)
        /\ RoundedTo(results.annualEnergy, locals.annualEnergy, 1)
        /\ RoundedTo(results.overturningMoment, locals.overturningMoment, 1)
        /\ RoundedTo(results.stabilityFactor, locals.stabilityFactor, 100)

(* C9, amended: crossSectionalArea, damVolume, concreteNeeded and          *)
(* headPressure are rounded to 2 decimals; reservoirVolume,                *)
(* hydrostaticForce, theoreticalPower, actualPower, annualEnergy and       *)
(* overturningMoment to whole units; stabilityFactor to 2 decimals.        *)
C9_RoundedAsReturned ==
    Returned =>
        /\ RoundedTo(results.crossSectionalArea, locals.crossSectionalArea, 100)
        /\ RoundedTo(results.damVolume, locals.damVolume, 100)
        /\ RoundedTo(results.concreteNeeded, locals.concreteNeeded, 100)
        /\ RoundedTo(results.reservoirVolume, locals.reservoirVolume, 1)
        /\ RoundedTo(results.headPressure, locals.headPressure, 100)
        /\ RoundedTo(results.hydrostaticForce, locals.hydrostaticForce, 1)
        /\ RoundedTo(results.theoreticalPower, locals.theoreticalPower, 1)
        /\ RoundedTo(results.actualPower, locals.actualPower, 1)
        /\ RoundedTo(results.annualEnergy, locals.annualEnergy, 1)
        /\ RoundedTo(results.overturningMoment, locals.overturningMoment, 1)
        /\ RoundedTo(results.stabilityFactor, locals.stabilityFactor, 100)

\* a reservoir volume with a fractional part has been returned whole, and a
\* stability factor with more than two decimals has been returned with two
C9_Witness ==
    /\ Returned
    /\ IsFinite(locals.reservoirVolume)
    /\ ~IsWhole(locals.reservoirVolume)
    /\ IsWhole(results.reservoirVolume)
    /\ IsFinite(locals.stabilityFactor)
    /\ ~IsWhole(Mul(locals.stabilityFactor, Dec(100, 1)))
    /\ IsWhole(Mul(results.stabilityFactor, Dec(100, 1)))

(* C10: rounding is applied to the returned record only: damVolume,        *)
(* concreteNeeded, actualPower, annualEnergy, overturningMoment, the       *)
(* stability factor and the safety status are each computed from the       *)
(* unrounded predecessor.                                                  *)
C10_ChainedFromUnrounded ==
    Returned =>
        /\ SameNum(results.damVolume,
                   Round2(Mul(locals.crossSectionalArea, params.length)))
        /\ SameNum(results.concreteNeeded,
                   Round2(Mul(locals.damVolume, Dec(105, 100))))
        /\ SameNum(results.actualPower,
                   MathRound(Mul(locals.theoreticalPower, params.efficiency)))
        /\ SameNum(results.annualEnergy,
                   MathRound(Mul(Div(locals.actualPower, Dec(1000, 1)),
                                 Dec(8760, 1))))
        /\ SameNum(results.overturningMoment,
                   MathRound(Mul(locals.hydrostaticForce,
                                 Div(params.waterDepth, Dec(3, 1)))))
        /\ SameNum(results.stabilityFactor,
                   Round2(Div(locals.restoringMoment,
                              OrElse(locals.overturningMoment, Dec(1, 1)))))
        /\ results.safetyStatus =
               IF Ge(locals.stabilityFactor, Dec(2, 1)) THEN "safe"
               ELSE IF Ge(locals.stabilityFactor, Dec(3, 2)) THEN "warning"
               ELSE "critical"

\* a return where chaining from the rounded area would have given another
\* volume than the one returned
C10_Witness ==
    /\ Returned
    /\ IsFinite(results.damVolume)
    /\ ~SameNum(results.damVolume,
                Round2(Mul(results.crossSectionalArea, params.length)))

----------------------------------------------------------------------------
(* A caller that passes what the user interface would reject: zero and     *)
(* negative fields, widths that cancel, Infinity and NaN.                  *)

AnyWidths == {Dec(-5, 1), Dec(0, 1), Dec(5, 1)}

AnyHeights == {Dec(-1, 1), Dec(0, 1), Dec(20, 1)}

AnyLengths == {Dec(0, 1), Dec(200, 1)}

AnyWaterDepths == {Dec(-3, 1), Dec(0, 1), Dec(3, 1), Inf(FALSE), NaN}

AnyEfficiencies == {Dec(0, 1), Dec(-85, 100), Dec(2, 1)}

AnyInputs ==
    [topWidth        : AnyWidths,
     bottomWidth     : AnyWidths,
     height          : AnyHeights,
     length          : AnyLengths,
     reservoirLength : {Dec(-1000, 1)},
     waterDepth      : AnyWaterDepths,
     flowRate        : {Dec(-20, 1)},
     efficiency      : AnyEfficiencies]

InitAny ==
    /\ params \in AnyInputs
    /\ pc = "ready"
    /\ locals = NotReturned
    /\ results = NotReturned
    /\ callerParams = [c \in Callers |-> defaultParameters]
    /\ CallersReady
    /\ HomeNotMounted
    /\ ServerStarted

SpecAny == InitAny /\ [][Next]_vars

\* a JavaScript number: a finite value, an infinity or NaN
IsNumber(x) == IsFinite(x) \/ IsInf(x) \/ IsNaN(x)

NumericFields ==
    {"crossSectionalArea", "damVolume", "concreteNeeded", "reservoirVolume",
     "headPressure", "theoreticalPower", "actualPower", "annualEnergy",
     "hydrostaticForce", "overturningMoment", "stabilityFactor"}

(* C11: calculateDamResults is total: whatever numbers the record holds,   *)
(* zero and negative fields and topWidth + bottomWidth = 0 included, the   *)
(* call has a result (before the call: the one it is about to return) and  *)
(* that result is a record of the 11 numeric fields, each a number, and a  *)
(* safetyStatus that is one of safe, warning and critical.                 *)
C11_TotalOverNumbers ==
    LET r == IF Returned THEN results ELSE calculateDamResults(params)
    IN  /\ DOMAIN r = NumericFields \cup {"safetyStatus"}
        /\ \A f \in NumericFields : IsNumber(r[f])
        /\ r.safetyStatus \in {"safe", "warning", "critical"}

\* a dam whose widths cancel has been calculated: its stability factor is
\* returned as NaN and its status as critical
C11_Witness ==
    /\ Returned
    /\ IsZero(Add(params.topWidth, params.bottomWidth))
    /\ ~Positive(params.height)
    /\ IsNaN(results.stabilityFactor)
    /\ results.safetyStatus = "critical"

----------------------------------------------------------------------------
(* C12: before rounding, crossSectionalArea = (topWidth + bottomWidth) / 2 *)
(* x height, damVolume = crossSectionalArea x length, concreteNeeded =     *)
(* damVolume x 1.05 and reservoirVolume = reservoirLength x length x       *)
(* waterDepth.                                                             *)
C12_GeometryFormulas ==
    Returned =>
        /\ SameNum(locals.crossSectionalArea,
                   Mul(Div(Add(params.topWidth, params.bottomWidth), Dec(2, 1)),
                       params.height))
        /\ SameNum(locals.damVolume,
                   Mul(locals.crossSectionalArea, params.length))
        /\ SameNum(locals.concreteNeeded,
                   Mul(locals.damVolume, Dec(105, 100)))
        /\ SameNum(locals.reservoirVolume,
                   Mul(Mul(params.reservoirLength, params.length),
                       params.waterDepth))

\* the default dam has been calculated: 600 m2, 120000 m3, 126000 m3 of
\* concrete and a reservoir of 4000000 m3
C12_Witness ==
    /\ Returned
    /\ params = defaultParameters
    /\ NumEq(locals.crossSectionalArea, Dec(600, 1))
    /\ NumEq(locals.damVolume, Dec(120000, 1))
    /\ NumEq(locals.concreteNeeded, Dec(126000, 1))
    /\ NumEq(locals.reservoirVolume, Dec(4000000, 1))

(* C13: before rounding, headPressure = waterDepth, theoreticalPower =     *)
(* 1000 x 9.81 x flowRate x headPressure, actualPower = theoreticalPower x *)
(* efficiency and annualEnergy = actualPower / 1000 x 8760; for efficiency *)
(* in (0, 1] and flowRate and waterDepth not negative, actualPower does    *)
(* not exceed theoreticalPower, as computed and as returned.               *)
C13_PowerFormulas ==
    Returned =>
        /\ SameNum(locals.headPressure, params.waterDepth)
        /\ SameNum(locals.theoreticalPower,
                   Mul(Mul(Mul(Dec(1000, 1), Dec(981, 100)), params.flowRate),
                       locals.headPressure))
        /\ SameNum(locals.actualPower,
                   Mul(locals.theoreticalPower, params.efficiency))
        /\ SameNum(locals.annualEnergy,
                   Mul(Div(locals.actualPower, Dec(1000, 1)), Dec(8760, 1)))
        /\ ( /\ Positive(params.efficiency) /\ Ge(Dec(1, 1), params.efficiency)
             /\ Ge(params.flowRate, Zero) /\ Ge(params.waterDepth, Zero) ) =>
               /\ Ge(locals.theoreticalPower, locals.actualPower)
               /\ Ge(results.theoreticalPower, results.actualPower)

\* a turbine of efficiency below 1 under a positive head: the power
\* delivered is positive and strictly below the theoretical power
C13_Witness ==
    /\ Returned
    /\ Gt(Dec(1, 1), params.efficiency)
    /\ Positive(params.waterDepth)
    /\ Positive(locals.actualPower)
    /\ Gt(locals.theoreticalPower, locals.actualPower)
    /\ Gt(results.theoreticalPower, results.actualPower)

\* two dams that share no value of topWidth, bottomWidth, height,
\* reservoirLength, flowRate and efficiency with the records of Inputs; the
\* second has widths that cancel
OtherDams ==
    {[topWidth |-> Dec(3, 1), bottomWidth |-> Dec(7, 1), height |-> Dec(11, 1),
      reservoirLength |-> Dec(13, 1), flowRate |-> Dec(17, 1),
      efficiency |-> Dec(5, 10)],
     [topWidth |-> Dec(-5, 1), bottomWidth |-> Dec(5, 1), height |-> Dec(0, 1),
      reservoirLength |-> Dec(-1000, 1), flowRate |-> Dec(0, 1),
      efficiency |-> Dec(2, 1)]}

\* the dam o holding back the water of p: o with the waterDepth and length of p
SameWater(p, o) ==
    [topWidth |-> o.topWidth, bottomWidth |-> o.bottomWidth,
     height |-> o.height, length |-> p.length,
     reservoirLength |-> o.reservoirLength, waterDepth |-> p.waterDepth,
     flowRate |-> o.flowRate, efficiency |-> o.efficiency]

(* C14: before rounding, hydrostaticForce = 0.5 x 1000 x 9.81 x            *)
(* waterDepth^2 x length and overturningMoment = hydrostaticForce x        *)
(* waterDepth / 3; a record with the same waterDepth and length and other  *)
(* values of topWidth, bottomWidth, height, reservoirLength, flowRate and  *)
(* efficiency gives the same two values.                                   *)
C14_LoadFormulas ==
    Returned =>
        /\ SameNum(locals.hydrostaticForce,
                   Mul(Mul(Mul(Mul(Dec(5, 10), Dec(1000, 1)), Dec(981, 100)),
                           Mul(params.waterDepth, params.waterDepth)),
                       params.length))
        /\ SameNum(locals.overturningMoment,
                   Div(Mul(locals.hydrostaticForce, params.waterDepth), Dec(3, 1)))
        /\ \A o \in OtherDams :
               LET other == DamLocals(SameWater(params, o))
               IN  /\ SameNum(other.hydrostaticForce, locals.hydrostaticForce)
                   /\ SameNum(other.overturningMoment, locals.overturningMoment)

\* water 20 deep on a dam 200 long: 392400000 N and 2616000000 N m, the
\* same for another dam whose volume and stability factor are different
C14_Witness ==
    /\ Returned
    /\ NumEq(locals.hydrostaticForce, Dec(392400000, 1))
    /\ NumEq(locals.overturningMoment, Mul(Dec(2616, 1), Dec(1000000, 1)))
    /\ \E o \in OtherDams :
           LET other == DamLocals(SameWater(params, o))
           IN  /\ ~SameNum(other.damVolume, locals.damVolume)
               /\ ~SameNum(other.stabilityFactor, locals.stabilityFactor)
               /\ SameNum(other.overturningMoment, locals.overturningMoment)

----------------------------------------------------------------------------
(* Overlapping invocations: client/src/lib/damCalculations.ts, lines 8-75  *)

\* the records the callers pass: the default dam, a narrower one, one with
\* no water behind it
CallerInputs ==
    {defaultParameters,
     [defaultParameters EXCEPT !.bottomWidth = Dec(12, 1)],
     [defaultParameters EXCEPT !.waterDepth = Dec(0, 1)]}

\* one activation record for all the invocations
FrameOf_shared(c) == 1

\* the activation record of the invocation made by caller c: its own
FrameOf(c) == c

InitCallers ==
    /\ params = defaultParameters
    /\ pc = "ready"
    /\ locals = NotReturned
    /\ results = NotReturned
    /\ callerParams \in [Callers -> CallerInputs]
    /\ CallersReady
    /\ HomeNotMounted
    /\ ServerStarted

\* line 9: the eight fields of the argument are copied into constants of
\* the invocation
Enter(c) ==
    /\ callerPc[c] = "ready"
    /\ frames' = [frames EXCEPT ![FrameOf(c)].inputs = callerParams[c]]
    /\ callerPc' = [callerPc EXCEPT ![c] = "entered"]
    /\ UNCHANGED << calculatorVars, homeVars, serverVars, callerParams,
                    callerResult >>

\* lines 11-59: the chain of constants, from the invocation's own copies
Compute(c) ==
    /\ callerPc[c] = "entered"
    /\ frames' = [frames EXCEPT ![FrameOf(c)].locals =
                      DamLocals(frames[FrameOf(c)].inputs)]
    /\ callerPc' = [callerPc EXCEPT ![c] = "computed"]
    /\ UNCHANGED << calculatorVars, homeVars, serverVars, callerParams,
                    callerResult >>

\* lines 61-74: a new record is built and returned
Return(c) ==
    /\ callerPc[c] = "computed"
    /\ callerResult' = [callerResult EXCEPT ![c] =
                            DamReturn(frames[FrameOf(c)].locals)]
    /\ callerPc' = [callerPc EXCEPT ![c] = "returned"]
    /\ UNCHANGED << calculatorVars, homeVars, serverVars, callerParams, frames >>

NextCallers == \E c \in Callers : Enter(c) \/ Compute(c) \/ Return(c)

SpecCallers == InitCallers /\ [][NextCallers]_vars

(* C15: invocations are independent: no step of any invocation changes a   *)
(* caller's parameter record, and however the invocations of the callers   *)
(* interleave, a caller that has its result has the result of              *)
(* calculateDamResults on its own record, the one it would get alone.      *)
C15_IndependentInvocations ==
    [][\A c \in Callers :
           /\ callerParams'[c] = callerParams[c]
           /\ (callerPc'[c] = "returned") =>
                  callerResult'[c] = calculateDamResults(callerParams[c])]_vars

\* two invocations on different records: one caller has its result while
\* the other is in the middle of its invocation and holds its own inputs
C15_Witness ==
    \E c, d \in Callers :
        /\ callerParams[c] # callerParams[d]
        /\ callerPc[c] = "returned"
        /\ callerPc[d] \in {"entered", "computed"}
        /\ frames[FrameOf(d)].inputs = callerParams[d]
        /\ callerResult[c] = calculateDamResults(callerParams[c])
        /\ callerResult[c] # calculateDamResults(callerParams[d])

----------------------------------------------------------------------------
(* Texts and numbers.  A text is a sequence of characters.  parseFloat     *)
(* reads the longest prefix that is a decimal literal; toString writes a   *)
(* number back.  Number.prototype.toString switches to exponent notation   *)
(* below 1e-6 and from 1e21 on, and parseFloat gives Infinity above the    *)
(* largest double: neither is modelled, the values the inputs accept lie   *)
(* between 0.1 and 50000.                                                  *)

Digits == << "0", "1", "2", "3", "4", "5", "6", "7", "8", "9" >>

IsDigit(ch) == \E i \in DOMAIN Digits : Digits[i] = ch

DigitValue(ch) == (CHOOSE i \in DOMAIN Digits : Digits[i] = ch) - 1

\* the length of the run of digits of s that starts at position i
RECURSIVE DigitRun(_, _)
DigitRun(s, i) ==
    IF i <= Len(s) /\ IsDigit(s[i]) THEN 1 + DigitRun(s, i + 1) ELSE 0

\* the first position of s from i on that holds no white space
RECURSIVE SkipSpace(_, _)
SkipSpace(s, i) ==
    IF i <= Len(s) /\ s[i] \in {" ", "\t", "\n"} THEN SkipSpace(s, i + 1) ELSE i

StartsWith(s, i, w) ==
    i + Len(w) - 1 <= Len(s) /\ SubSeq(s, i, i + Len(w) - 1) = w

\* the natural number a sequence of digits writes, after acc
RECURSIVE NatOfDigits(_, _)
NatOfDigits(ds, acc) ==
    IF ds = << >> THEN acc
    ELSE NatOfDigits(Tail(ds),
                     NatAdd(NatMulLimb(acc, 10), NatOf(DigitValue(Head(ds)))))

\* the same as a machine integer (for the few digits of an exponent)
RECURSIVE IntOfDigits(_, _)
IntOfDigits(ds, acc) ==
    IF ds = << >> THEN acc
    ELSE IntOfDigits(Tail(ds), acc * 10 + DigitValue(Head(ds)))

RECURSIVE Pow10(_)
Pow10(k) == IF k = 0 THEN << 1 >> ELSE NatMulLimb(Pow10(k - 1), 10)

RECURSIVE StripTrailingZeros(_)
StripTrailingZeros(ds) ==
    IF ds # << >> /\ ds[Len(ds)] = "0"
    THEN StripTrailingZeros(SubSeq(ds, 1, Len(ds) - 1))
    ELSE ds

\* parseFloat(text): white space, a sign, then Infinity or digits with an
\* optional fraction and an optional exponent; what follows is ignored; NaN
\* when no digit is found
ParseFloat(text) ==
    LET i0       == SkipSpace(text, 1)
        hasSign  == i0 <= Len(text) /\ text[i0] \in {"+", "-"}
        neg      == hasSign /\ text[i0] = "-"
        i1       == IF hasSign THEN i0 + 1 ELSE i0
        ni       == DigitRun(text, i1)
        i2       == i1 + ni
        hasDot   == i2 <= Len(text) /\ text[i2] = "."
        nf       == IF hasDot THEN DigitRun(text, i2 + 1) ELSE 0
        i3       == IF hasDot THEN i2 + 1 + nf ELSE i2
        hasE     == i3 <= Len(text) /\ text[i3] \in {"e", "E"}
        hasESign == hasE /\ i3 + 1 <= Len(text) /\ text[i3 + 1] \in {"+", "-"}
        i4       == IF hasESign THEN i3 + 2 ELSE i3 + 1
        ne       == IF hasE THEN DigitRun(text, i4) ELSE 0
        exponent == IF ne = 0 THEN 0
                    ELSE (IF hasESign /\ text[i3 + 1] = "-" THEN -1 ELSE 1)
                         * IntOfDigits(SubSeq(text, i4, i4 + ne - 1), 0)
        fraction == StripTrailingZeros(SubSeq(text, i2 + 1, i2 + nf))
        n        == NatOfDigits(SubSeq(text, i1, i1 + ni - 1) \o fraction, << >>)
        k        == Len(fraction) - exponent
    IN  IF StartsWith(text, i1, << "I", "n", "f", "i", "n", "i", "t", "y" >>)
        THEN Inf(neg)
        ELSE IF ni = 0 /\ nf = 0 THEN NaN
        ELSE IF k >= 0 THEN Fin(neg, n, Pow10(k))
        ELSE Fin(neg, NatMul(n, Pow10(-k)), << 1 >>)

\* the decimal digits of a natural number, most significant first: those of
\* the quotient by 10, then the digit of the remainder
RECURSIVE DigitsOfNat(_)
DigitsFrom(qr) ==
    (IF qr.q = << >> THEN << >> ELSE DigitsOfNat(qr.q))
    \o << Digits[(IF qr.r = << >> THEN 0 ELSE qr.r[1]) + 1] >>

DigitsOfNat(a) == DigitsFrom(NatDivMod(a, << 10 >>))

\* the digits after the point of r / d (r < d, d a divisor of a power of 10):
\* the quotient of 10 r by d, then the digits of the remainder
RECURSIVE FractionDigits(_, _)
FractionFrom(qr, d) ==
    << Digits[(IF qr.q = << >> THEN 0 ELSE qr.q[1]) + 1] >>
    \o FractionDigits(qr.r, d)

FractionDigits(r, d) ==
    IF r = << >> THEN << >>
    ELSE FractionFrom(NatDivMod(NatMulLimb(r, 10), d), d)

\* sign, integer digits and, if there are any, a point and fraction digits
NumberText(neg, int, fraction) ==
    (IF neg THEN << "-" >> ELSE << >>)
    \o int
    \o (IF fraction = << >> THEN << >> ELSE << "." >> \o fraction)

\* value.toString() (ToString is a name of the TLC module)
NumberToString(x) ==
    IF IsNaN(x) THEN << "N", "a", "N" >>
    ELSE IF IsInf(x)
         THEN (IF x.neg THEN << "-" >> ELSE << >>)
              \o << "I", "n", "f", "i", "n", "i", "t", "y" >>
    ELSE NumberText(x.neg,
                    DigitsOfNat(NatDivMod(x.n, x.d).q),
                    FractionDigits(NatDivMod(x.n, x.d).r, x.d))

----------------------------------------------------------------------------
(* The Home page (client/src/pages/Home.tsx) and the ParametersPanel with  *)
(* its NumberInputs and its efficiency slider                              *)
(* (client/src/components/ParametersPanel.tsx).  An event handler and the  *)
(* rendering that its state changes cause are one step.                    *)

NumberFields ==
    {"topWidth", "bottomWidth", "height", "length", "reservoirLength",
     "waterDepth", "flowRate"}

\* the min and max each NumberInput is given by ParametersPanel
InputRange ==
    [topWidth        |-> [min |-> Dec(1, 10), max |-> Dec(100, 1)],
     bottomWidth     |-> [min |-> Dec(1, 10), max |-> Dec(200, 1)],
     height          |-> [min |-> Dec(1, 10), max |-> Dec(300, 1)],
     length          |-> [min |-> Dec(1, 1),  max |-> Dec(2000, 1)],
     reservoirLength |-> [min |-> Dec(10, 1), max |-> Dec(50000, 1)],
     waterDepth      |-> [min |-> Dec(1, 10), max |-> Dec(300, 1)],
     flowRate        |-> [min |-> Dec(1, 10), max |-> Dec(10000, 1)]]

\* the slider: min, max (its step is 1)
SliderMin == 1

SliderMax == 100

\* the positions the slider is moved to
SliderStops == {SliderMin, SliderMax}

\* the texts typed: not a number; a negative number; zero; a positive
\* number below every minimum; a number every input accepts, written with
\* a trailing zero and followed by a letter (12.5); a number above every
\* maximum
TypedTexts ==
    {<< "a", "b", "c" >>,
     << "-", "5" >>,
     << "0" >>,
     << "0", ".", "0", "5" >>,
     << "1", "2", ".", "5", "0", "x" >>,
     << "1", "e", "9" >>}

\* how many texts are typed in a session
MaxEdits == 2

\* the props Home hands to its panels: the parameters state and the results
\* computed in this rendering
HomeProps(p, computed) ==
    [parametersPanel |-> [parameters |-> p],
     exportPanel     |-> [parameters |-> p, results |-> computed],
     damViewer       |-> [parameters |-> p],
     resultsPanel    |-> [results |-> computed]]

\* the results computed once, for the default parameters, and kept
RenderHome_resultsKept(p) ==
    HomeProps(p, calculateDamResults(defaultParameters))

\* Home renders: results is computed from the state and both are handed to
\* the panels
RenderHome(p) == HomeProps(p, calculateDamResults(p))

\* the lower limit not tested
Accepts_noMinimum(numValue, min, max) ==
    ~IsNaN(numValue) /\ Ge(max, numValue)

\* !isNaN(numValue) && numValue >= min && numValue <= max
Accepts(numValue, min, max) ==
    ~IsNaN(numValue) /\ Ge(numValue, min) /\ Ge(max, numValue)

\* the page is mounted: useState(defaultParameters), the first rendering,
\* useState(value.toString()) in each NumberInput
InitHome ==
    /\ params = defaultParameters
    /\ pc = "ready"
    /\ locals = NotReturned
    /\ results = NotReturned
    /\ callerParams = [c \in Callers |-> defaultParameters]
    /\ CallersReady
    /\ parameters = defaultParameters
    /\ rendered = RenderHome(defaultParameters)
    /\ inputValue = [f \in NumberFields |-> NumberToString(defaultParameters[f])]
    /\ focus = NoFocus
    /\ edits = 0
    /\ previousWrites = {}
    /\ PanelsNotMounted
    /\ ServerStarted

\* handleParameterChange(newParams): setParameters, then Home renders again
\* and the effect of each NumberInput whose value changed resets its text
HandleParameterChange(newParams) ==
    /\ parameters' = newParams
    /\ rendered' = RenderHome(newParams)
    /\ inputValue' =
           [f \in NumberFields |->
                IF SameNum(newParams[f], rendered.parametersPanel.parameters[f])
                THEN inputValue[f]
                ELSE NumberToString(newParams[f])]

\* the field written into the record the panel was rendered with, and that
\* record handed to onChange
UpdateParam_assign(key, value) ==
    /\ HandleParameterChange(
           [rendered.parametersPanel.parameters EXCEPT ![key] = value])
    /\ previousWrites' = {key}

\* updateParam(key, value): onChange({ ...parameters, [key]: value }), with
\* the parameters the panel was rendered with; the spread copies them into
\* a new record and leaves the old one as it is
UpdateParam(key, value) ==
    /\ HandleParameterChange(
           [rendered.parametersPanel.parameters EXCEPT ![key] = value])
    /\ previousWrites' = {}

\* a text that is not accepted is left in the input
HandleBlur_textKept(f) ==
    \E numValue \in {ParseFloat(inputValue[f])} :
        IF Accepts(numValue, InputRange[f].min, InputRange[f].max)
        THEN UpdateParam(f, numValue)
        ELSE UNCHANGED << parameters, rendered, previousWrites,
                          inputValue >>

\* handleBlur of the NumberInput f
HandleBlur(f) ==
    \E numValue \in {ParseFloat(inputValue[f])} :
        IF Accepts(numValue, InputRange[f].min, InputRange[f].max)
        THEN UpdateParam(f, numValue)
        ELSE /\ inputValue' =
                    [inputValue EXCEPT ![f] =
                         NumberToString(rendered.parametersPanel.parameters[f])]
             /\ UNCHANGED << parameters, rendered, previousWrites >>

\* the user clicks into an input
FocusInput(f) ==
    /\ focus = NoFocus
    /\ focus' = f
    /\ UNCHANGED << calculatorVars, callerVars, serverVars, panelVars, parameters,
                    rendered, inputValue, edits, previousWrites >>

\* onChange of the input: setInputValue(e.target.value)
TypeText(text) ==
    /\ focus # NoFocus
    /\ edits < MaxEdits
    /\ inputValue' = [inputValue EXCEPT ![focus] = text]
    /\ edits' = edits + 1
    /\ UNCHANGED << calculatorVars, callerVars, serverVars, panelVars, parameters,
                    rendered, focus, previousWrites >>

\* onKeyDown with the Enter key: handleBlur, the focus stays
PressEnter ==
    /\ focus # NoFocus
    /\ HandleBlur(focus)
    /\ UNCHANGED << calculatorVars, callerVars, serverVars, panelVars, focus, edits >>

\* onBlur: handleBlur, the focus is gone
BlurInput ==
    /\ focus # NoFocus
    /\ HandleBlur(focus)
    /\ focus' = NoFocus
    /\ UNCHANGED << calculatorVars, callerVars, serverVars, panelVars, edits >>

\* onValueChange of the slider: updateParam("efficiency", v[0] / 100)
SliderMove(v) ==
    /\ UpdateParam("efficiency", Div(Dec(v, 1), Dec(100, 1)))
    /\ UNCHANGED << calculatorVars, callerVars, serverVars, panelVars, focus, edits >>

NextHome ==
    \/ \E f \in NumberFields : FocusInput(f)
    \/ \E text \in TypedTexts : TypeText(text)
    \/ PressEnter
    \/ BlurInput
    \/ \E v \in SliderStops : SliderMove(v)

SpecHome == InitHome /\ [][NextHome]_vars

(* C16: in the Home page, whatever parameter changes have been made, the   *)
(* results handed to ResultsPanel and to ExportPanel are                   *)
(* calculateDamResults of the current parameters state, and the parameters *)
(* handed to ExportPanel are that state: never those of an earlier set.    *)
C16_ResultsOfCurrentParameters ==
    (rendered # NotMounted) =>
        LET current == calculateDamResults(parameters)
        IN  /\ rendered.resultsPanel.results = current
            /\ rendered.exportPanel.results = current
            /\ rendered.exportPanel.parameters = parameters

\* after an edit, the page shows results that are no longer those of the
\* default parameters
C16_Witness ==
    /\ rendered # NotMounted
    /\ edits > 0
    /\ ~SameNum(parameters.bottomWidth, defaultParameters.bottomWidth)
    /\ rendered.resultsPanel.results # calculateDamResults(defaultParameters)
    /\ rendered.resultsPanel.results = calculateDamResults(parameters)

(* C17: from the default parameters, after any NumberInput edits (blur or  *)
(* Enter, whatever the text) and slider moves, all eight parameters are    *)
(* strictly positive and efficiency is at most 1.                          *)
C17_ParametersStayValid ==
    (parameters # NotMounted) =>
        /\ AllPositive(parameters)
        /\ Ge(Dec(1, 1), parameters.efficiency)

\* a typed 12.50x has been accepted as 12.5 and written back as 12.5, and
\* the slider has been moved to its lowest position
C17_Witness ==
    /\ parameters # NotMounted
    /\ \E f \in NumberFields :
           /\ NumEq(parameters[f], Dec(125, 10))
           /\ inputValue[f] = << "1", "2", ".", "5" >>
    /\ NumEq(parameters.efficiency, Dec(1, 100))
    /\ focus = NoFocus

----------------------------------------------------------------------------
(* The server: server/routes.ts, server/storage.ts and the simulations     *)
(* table of shared/schema.ts.  A request is handled in one step.  The      *)
(* middleware isAuthenticated (server/replitAuth.ts) is taken from the     *)
(* specification: a request passes when it carries a session, and a       *)
(* session belongs to a user the login has registered.                     *)

Users == {"alice", "bob"}

Sessions == Users \cup {NoSession}

Arr(rows) == [type |-> "array", value |-> rows]

\* how many rows are inserted
MaxSimulations == 2

\* a dam narrower than the default one
NarrowDam == [defaultParameters EXCEPT !.bottomWidth = Dec(12, 1)]

\* what the clients send as name, parameters and results
BodyNames == {Undefined, Str("Dam A")}

BodyParameters == {Undefined, Null, Obj(defaultParameters), Obj(NarrowDam)}

BodyResults ==
    {Undefined, Obj(calculateDamResults(defaultParameters)),
     Obj(calculateDamResults(NarrowDam))}

\* what a client may add to the body on top of name, parameters and results:
\* nothing, or an owner, an id and a creation time of its choosing
BodyExtras ==
    {[userId |-> Undefined, id |-> Undefined, createdAt |-> Undefined],
     [userId |-> Str("bob"), id |-> Str("1"), createdAt |-> Str("2001-01-01")]}

Bodies ==
    [name : BodyNames, parameters : BodyParameters, results : BodyResults,
     extras : BodyExtras]

\* the results column made nullable
NotNullColumns_resultsNullable == {"userId", "name", "parameters"}

\* the columns of simulations declared notNull() that an insert has to fill
NotNullColumns == {"userId", "name", "parameters", "results"}

\* DELETE registered without the middleware
RouteMiddleware_deleteOpen(route) ==
    IF route = "DELETE /api/simulations/:id" THEN << >>
    ELSE << "isAuthenticated" >>

\* the middleware each route is registered with
RouteMiddleware(route) ==
    IF route \in {"GET /api/auth/user", "GET /api/simulations",
                  "POST /api/simulations", "DELETE /api/simulations/:id"}
    THEN << "isAuthenticated" >>
    ELSE << >>

\* isAuthenticated lets the request through to the handler
IsAuthenticated(req) == req.session # NoSession

\* the response of isAuthenticated to a request it stops
Unauthorized == [status |-> 401, body |-> Str("Unauthorized")]

\* every middleware of the route calls next()
PassesMiddleware(req) ==
    \A i \in DOMAIN RouteMiddleware(req.route) :
        RouteMiddleware(req.route)[i] = "isAuthenticated" => IsAuthenticated(req)

\* storage.getSimulation(id): the rows with that id (none or one)
GetSimulation(id) == {s \in simulations : s.id = id}

\* the insert of storage.createSimulation is refused by the database: a
\* notNull column is given no value, or null
InsertRefused(row) == \E c \in NotNullColumns : row[c] \in {Undefined, Null}

\* what a handler body leaves behind: the table, the storage calls it made
\* and its response
Outcome(table, next, calls, status, body) ==
    [simulations |-> table,
     nextId      |-> next,
     run         |-> [handler |-> TRUE, calls |-> calls],
     response    |-> [status |-> status, body |-> body]]

\* the where clause left out
GetSimulationsByUser_all(userId) == simulations

\* storage.getSimulationsByUser(userId)
GetSimulationsByUser(userId) == {s \in simulations : s.userId = Str(userId)}

\* the where clause left out
DeleteSimulationRows_all(id) == {}

\* storage.deleteSimulation(id): the table without the rows of that id
DeleteSimulationRows(id) == {s \in simulations : s.id # id}

\* nobody is refused
NotOwner_never(simulation, req) == FALSE

\* simulation.userId !== req.user.claims.sub
NotOwner(simulation, req) == simulation.userId # Str(req.session)

\* the body spread into the values, over the session's user
InsertValues_bodySpread(req) ==
    [userId     |-> IF req.body.extras.userId = Undefined
                    THEN Str(req.session) ELSE req.body.extras.userId,
     name       |-> req.body.name,
     parameters |-> req.body.parameters,
     results    |-> req.body.results]

\* the object handed to storage.createSimulation: the session's user and
\* the three properties destructured from the body
InsertValues(req) ==
    [userId     |-> Str(req.session),
     name       |-> req.body.name,
     parameters |-> req.body.parameters,
     results    |-> req.body.results]

\* GET /api/auth/user; req.user.claims.sub throws when there is no user
GetAuthUserHandler(req) ==
    IF req.session = NoSession
    THEN Outcome(simulations, nextId, << >>, 500, Str("Failed to fetch user"))
    ELSE Outcome(simulations, nextId, << "getUser" >>, 200,
                 Obj([id |-> req.session]))

\* GET /api/simulations
GetSimulationsHandler(req) ==
    IF req.session = NoSession
    THEN Outcome(simulations, nextId, << >>, 500,
                 Str("Failed to fetch simulations"))
    ELSE Outcome(simulations, nextId, << "getSimulationsByUser" >>, 200,
                 Arr(GetSimulationsByUser(req.session)))

\* POST /api/simulations: name, parameters and results are taken from the
\* body as they are and inserted; the id is the column's default
PostSimulationsHandler(req) ==
    IF req.session = NoSession
    THEN Outcome(simulations, nextId, << >>, 500,
                 Str("Failed to create simulation"))
    ELSE LET row == [id |-> nextId] @@ InsertValues(req)
         IN  IF InsertRefused(row)
             THEN Outcome(simulations, nextId, << "createSimulation" >>, 500,
                          Str("Failed to create simulation"))
             ELSE Outcome(simulations \cup {row}, nextId + 1,
                          << "createSimulation" >>, 200, Obj(row))

\* DELETE /api/simulations/:id
DeleteSimulationHandler(req) ==
    LET found == GetSimulation(req.id)
    IN  IF found = {}
        THEN Outcome(simulations, nextId, << "getSimulation" >>, 404,
                     Str("Simulation not found"))
        ELSE IF req.session = NoSession
        THEN Outcome(simulations, nextId, << "getSimulation" >>, 500,
                     Str("Failed to delete simulation"))
        ELSE IF \E s \in found : NotOwner(s, req)
        THEN Outcome(simulations, nextId, << "getSimulation" >>, 403,
                     Str("Forbidden"))
        ELSE Outcome(DeleteSimulationRows(req.id), nextId,
                     << "getSimulation", "deleteSimulation" >>, 200,
                     Str("Simulation deleted"))

InitServer ==
    /\ params = defaultParameters
    /\ pc = "ready"
    /\ locals = NotReturned
    /\ results = NotReturned
    /\ callerParams = [c \in Callers |-> defaultParameters]
    /\ CallersReady
    /\ HomeNotMounted
    /\ ServerStarted

\* the route's middleware, then its handler if every middleware passed
Serve(req, outcome) ==
    /\ lastRequest' = req
    /\ IF PassesMiddleware(req)
       THEN /\ simulations' = outcome.simulations
            /\ nextId' = outcome.nextId
            /\ lastRun' = outcome.run
            /\ lastResponse' = outcome.response
       ELSE /\ lastRun' = NoRun
            /\ lastResponse' = Unauthorized
            /\ UNCHANGED << simulations, nextId >>
    /\ deletedIds' = deletedIds \cup {s.id : s \in simulations \ simulations'}
    /\ UNCHANGED << calculatorVars, callerVars, homeVars, pendingDeletes >>

GetAuthUser(session) ==
    LET req == [route |-> "GET /api/auth/user", session |-> session,
                body |-> NoBody, id |-> 0]
    IN  Serve(req, GetAuthUserHandler(req))

GetSimulations(session) ==
    LET req == [route |-> "GET /api/simulations", session |-> session,
                body |-> NoBody, id |-> 0]
    IN  Serve(req, GetSimulationsHandler(req))

PostSimulations(session, body) ==
    /\ nextId <= MaxSimulations
    /\ LET req == [route |-> "POST /api/simulations", session |-> session,
                   body |-> body, id |-> 0]
       IN  Serve(req, PostSimulationsHandler(req))

DeleteSimulation(session, id) ==
    LET req == [route |-> "DELETE /api/simulations/:id", session |-> session,
                body |-> NoBody, id |-> id]
    IN  Serve(req, DeleteSimulationHandler(req))

NextServer ==
    \E session \in Sessions :
        \/ GetAuthUser(session)
        \/ GetSimulations(session)
        \/ \E body \in Bodies : PostSimulations(session, body)
        \/ \E id \in 1..(MaxSimulations + 1) : DeleteSimulation(session, id)

SpecServer == InitServer /\ [][NextServer]_vars

\* a column value that is there: neither left out nor null
Present(v) == v \notin {Undefined, Null}

(* C18: whatever create and delete requests are made, every row of the     *)
(* simulations table has its parameters and its results, and a create      *)
(* request that leaves out either of them stores nothing.                  *)
C18_RowsPairParametersAndResults ==
    [][/\ \A s \in simulations' : Present(s.parameters) /\ Present(s.results)
       /\ ( /\ lastRequest'.route = "POST /api/simulations"
            /\ ~(Present(lastRequest'.body.parameters)
                 /\ Present(lastRequest'.body.results)) ) =>
              simulations' = simulations]_vars

\* with a simulation in the table, an authenticated create request without
\* results has been answered 500 after the insert was tried
C18_Witness ==
    /\ lastRequest.route = "POST /api/simulations"
    /\ lastRequest.session # NoSession
    /\ Present(lastRequest.body.name)
    /\ Present(lastRequest.body.parameters)
    /\ lastRequest.body.results = Undefined
    /\ lastRun = [handler |-> TRUE, calls |-> << "createSimulation" >>]
    /\ lastResponse.status = 500
    /\ simulations # {}

(* C19, as claimed: for every row stored through POST /api/simulations,    *)
(* the stored results are calculateDamResults of the stored parameters.    *)
C19_StoredResultsAreComputed ==
    \A s \in simulations :
        s.results = Obj(calculateDamResults(s.parameters.value))

(* C20: each of the four routes is guarded: in a step that handles a       *)
(* request isAuthenticated does not let through, the handler body does not *)
(* run, no storage method is called, the table is left as it is and the    *)
(* response carries no simulation.                                         *)
C20_RoutesGuarded ==
    [][~IsAuthenticated(lastRequest') =>
           /\ lastRun' = NoRun
           /\ simulations' = simulations
           /\ lastResponse' = Unauthorized]_vars

\* a DELETE without a session, for a simulation that exists, has been
\* stopped: the simulation is still there
C20_Witness ==
    /\ lastRequest.route = "DELETE /api/simulations/:id"
    /\ lastRequest.session = NoSession
    /\ \E s \in simulations : s.id = lastRequest.id
    /\ lastRun = NoRun
    /\ lastResponse = Unauthorized

(* C21: after any creates and deletes by any users, an authenticated       *)
(* GET /api/simulations is answered 200 with exactly the stored rows whose *)
(* userId is the requester's id, so never with a row of another user.      *)
C21_ListsOnlyOwnSimulations ==
    ( /\ lastRequest.route = "GET /api/simulations"
      /\ lastRequest.session # NoSession ) =>
        /\ lastResponse.status = 200
        /\ lastResponse.body =
               Arr({s \in simulations : s.userId = Str(lastRequest.session)})
        /\ \A s \in lastResponse.body.value : s.userId = Str(lastRequest.session)

\* alice lists while the table holds a row of hers and a row of bob's
C21_Witness ==
    /\ lastRequest.route = "GET /api/simulations"
    /\ lastRequest.session = "alice"
    /\ \E s \in simulations : s.userId = Str("bob")
    /\ lastResponse.body.type = "array"
    /\ lastResponse.body.value # {}
    /\ lastResponse.body.value # simulations

(* C23: an authenticated DELETE /api/simulations/:id answers 404 when no   *)
(* row has that id and 403 when the row belongs to another user, leaving   *)
(* the table as it is; for the owner the row is removed and the answer is  *)
(* 'Simulation deleted'.                                                   *)
C23_DeleteOnlyByOwner ==
    [][( /\ lastRequest'.route = "DELETE /api/simulations/:id"
         /\ lastRequest'.session # NoSession ) =>
           LET found == {s \in simulations : s.id = lastRequest'.id}
           IN  IF found = {}
               THEN /\ lastResponse'.status = 404
                    /\ simulations' = simulations
               ELSE IF \E s \in found : s.userId # Str(lastRequest'.session)
               THEN /\ lastResponse'.status = 403
                    /\ simulations' = simulations
               ELSE /\ simulations' = simulations \ found
                    /\ lastResponse' =
                           [status |-> 200, body |-> Str("Simulation deleted")]]_vars

\* a DELETE for a row of another user has been answered 403 and the row is
\* still there, after an owner had removed a row of their own
C23_Witness ==
    /\ lastRequest.route = "DELETE /api/simulations/:id"
    /\ lastRequest.session # NoSession
    /\ lastResponse.status = 403
    /\ \E s \in simulations :
           s.id = lastRequest.id /\ s.userId # Str(lastRequest.session)
    /\ deletedIds # {}

(* C25: a POST /api/simulations that succeeds adds exactly one row, owned  *)
(* by the session's user and with the id the table gives it; a userId, id  *)
(* or creation time in the body has no part in it.                         *)
C25_StoredUnderSessionUser ==
    [][( /\ lastRequest'.route = "POST /api/simulations"
         /\ lastResponse'.status = 200 ) =>
           \E row \in simulations' :
               /\ row \notin simulations
               /\ simulations' = simulations \cup {row}
               /\ row.userId = Str(lastRequest'.session)
               /\ row.id = nextId
               /\ DOMAIN row = {"id", "userId", "name", "parameters", "results"}
               /\ lastResponse'.body = Obj(row)]_vars

\* alice has created a simulation with a body that names bob as its owner
C25_Witness ==
    /\ lastRequest.route = "POST /api/simulations"
    /\ lastRequest.session = "alice"
    /\ lastRequest.body.extras.userId = Str("bob")
    /\ lastResponse.status = 200
    /\ lastResponse.body.value.userId = Str("alice")
    /\ lastResponse.body.value \in simulations

----------------------------------------------------------------------------
(* Requests in flight together.  A handler runs until its next await and   *)
(* the other handlers run in between.  GET and POST make one storage call  *)
(* and answer; DELETE awaits getSimulation, makes its checks, and then     *)
(* awaits deleteSimulation: it is taken in two steps.                      *)

\* how many DELETE handlers wait for deleteSimulation at a time
MaxPending == 2

\* the bodies sent while requests overlap
ConcurrentBodies ==
    {b \in Bodies : /\ b.name # Undefined
                    /\ b.parameters = Obj(defaultParameters)
                    /\ b.results = Obj(calculateDamResults(defaultParameters))}

\* the handler gets as far as calling storage.deleteSimulation
DeleteAwaits(req) ==
    /\ PassesMiddleware(req)
    /\ req.session # NoSession
    /\ GetSimulation(req.id) # {}
    /\ \A s \in GetSimulation(req.id) : ~NotOwner(s, req)

\* DELETE up to its second await: getSimulation, the 404 and the 403 test
DeleteCheck(session, id) ==
    LET req == [route |-> "DELETE /api/simulations/:id", session |-> session,
                body |-> NoBody, id |-> id]
    IN  IF DeleteAwaits(req)
        THEN /\ Len(pendingDeletes) < MaxPending
             /\ pendingDeletes' = Append(pendingDeletes, req)
             /\ lastRequest' = req
             /\ lastRun' = [handler |-> TRUE, calls |-> << "getSimulation" >>]
             /\ lastResponse' = NoResponse
             /\ UNCHANGED << calculatorVars, callerVars, homeVars, simulations,
                             nextId, deletedIds >>
        ELSE Serve(req, DeleteSimulationHandler(req))

\* DELETE from its second await on: the delete runs and the handler answers
DeleteRun(i) ==
    /\ i \in DOMAIN pendingDeletes
    /\ simulations' = DeleteSimulationRows(pendingDeletes[i].id)
    /\ deletedIds' = deletedIds \cup {s.id : s \in simulations \ simulations'}
    /\ pendingDeletes' =
           [j \in 1..(Len(pendingDeletes) - 1) |->
                IF j < i THEN pendingDeletes[j] ELSE pendingDeletes[j + 1]]
    /\ lastRequest' = pendingDeletes[i]
    /\ lastRun' = [handler |-> TRUE,
                   calls |-> << "getSimulation", "deleteSimulation" >>]
    /\ lastResponse' = [status |-> 200, body |-> Str("Simulation deleted")]
    /\ UNCHANGED << calculatorVars, callerVars, homeVars, nextId >>

NextConcurrent ==
    \/ \E session \in Sessions :
           \/ GetSimulations(session)
           \/ \E body \in ConcurrentBodies : PostSimulations(session, body)
           \/ \E id \in 1..(MaxSimulations + 1) : DeleteCheck(session, id)
    \/ \E i \in 1..MaxPending : DeleteRun(i)

SpecConcurrent == InitServer /\ [][NextConcurrent]_vars

(* C24: however DELETE, POST and GET requests of several users overlap, a  *)
(* row leaves the table only in the delete of a request by its owner for   *)
(* its id; a row that was removed never comes back; a delete that answers  *)
(* success leaves no row of its id; and no list answered afterwards holds  *)
(* a removed row.                                                          *)
C24_ConcurrentDeletesRespectOwnership ==
    [][/\ \A s \in simulations \ simulations' :
              /\ lastRequest'.route = "DELETE /api/simulations/:id"
              /\ lastRequest'.id = s.id
              /\ s.userId = Str(lastRequest'.session)
       /\ \A s \in simulations' : s.id \notin deletedIds'
       /\ ( /\ lastRequest'.route = "DELETE /api/simulations/:id"
            /\ lastResponse'.status = 200 ) =>
              \A s \in simulations' : s.id # lastRequest'.id
       /\ ( /\ lastRequest'.route = "GET /api/simulations"
            /\ lastResponse'.status = 200 ) =>
              \A s \in lastResponse'.body.value : s.id \notin deletedIds]_vars

\* two deletes of the same row by its owner overlapped: one has removed the
\* row and answered, the other still waits, and a row of the other user is
\* in the table
C24_Witness ==
    /\ \E i \in DOMAIN pendingDeletes : pendingDeletes[i].id \in deletedIds
    /\ lastRequest.route = "DELETE /api/simulations/:id"
    /\ lastResponse.status = 200
    /\ \E s \in simulations : s.userId # Str(lastRequest.session)

(* C26: a NumberInput commits its text on blur or Enter only if the text   *)
(* parses to a number within [min, max], and then the parameter becomes    *)
(* that number; otherwise the parameter keeps its value and the text       *)
(* becomes that value again.  A parameter changes in no other way: typing  *)
(* alone changes none.                                                     *)
C26_CommitsOnlyValidText ==
    [][\A f \in NumberFields :
           LET typed == ParseFloat(inputValue[f])
               valid == Accepts(typed, InputRange[f].min, InputRange[f].max)
               handled == /\ focus = f
                          /\ edits' = edits
                          /\ SameNum(parameters'.efficiency,
                                     parameters.efficiency)
           IN  /\ ~SameNum(parameters'[f], parameters[f]) =>
                      handled /\ valid /\ SameNum(parameters'[f], typed)
               /\ (edits' # edits) => (parameters' = parameters)
               /\ (handled /\ valid) => SameNum(parameters'[f], typed)
               /\ (handled /\ ~valid) =>
                      /\ parameters' = parameters
                      /\ inputValue'[f] = NumberToString(parameters[f])
      ]_vars

\* two texts were typed and both inputs left: one text was committed as
\* 12.5, the other was refused and the input shows its parameter again
C26_Witness ==
    /\ parameters # NotMounted
    /\ edits = 2
    /\ focus = NoFocus
    /\ \E f \in NumberFields :
           /\ NumEq(parameters[f], Dec(125, 10))
           /\ \A g \in NumberFields \ {f} :
                  SameNum(parameters[g], defaultParameters[g])
    /\ \A g \in NumberFields :
           inputValue[g] = NumberToString(parameters[g])

(* C27: an edit in the ParametersPanel changes one field: after any        *)
(* handler, the parameters differ from those before in at most one of      *)
(* the eight fields, and the record the panel was given has not been       *)
(* written.                                                                *)
C27_UpdateChangesOneField ==
    [][/\ previousWrites' = {}
       /\ \A f \in DOMAIN parameters :
              ~SameNum(parameters'[f], parameters[f]) =>
                  \A g \in DOMAIN parameters \ {f} :
                      SameNum(parameters'[g], parameters[g])
      ]_vars

\* the bottom width has been edited and the seven other fields are those
\* of the default parameters
C27_Witness ==
    /\ parameters # NotMounted
    /\ ~SameNum(parameters.bottomWidth, defaultParameters.bottomWidth)
    /\ \A g \in DOMAIN defaultParameters \ {"bottomWidth"} :
           SameNum(parameters[g], defaultParameters[g])
    /\ previousWrites = {}
    /\ inputValue.bottomWidth = NumberToString(parameters.bottomWidth)

----------------------------------------------------------------------------
(* The DamViewer (client/src/components/DamViewer.tsx) and the ExportPanel *)
(* (client/src/components/ExportPanel.tsx) of the page.  The viewer keeps  *)
(* one three.js scene.  Its dam effect runs after every rendering in which *)
(* parameters or useGLB changed; a state that a handler sets is rendered   *)
(* after the effect of the rendering before has run.  loader.load calls    *)
(* back later, once, with the model or with an error, and the calls of     *)
(* several loads come in any order.  A handler runs to its end before      *)
(* anything else runs.                                                     *)

\* the parameter records the page hands to the viewer
ViewerDams == {defaultParameters, NarrowDam}

\* how many times the user switches "Use 3D Model" or changes a parameter
MaxViewerEvents == 3

\* how many files are saved
MaxDownloads == 2

\* createExtrudedDam: the group with the mesh extruded from the trapezoid
\* (topWidth, bottomWidth, height) over the depth length
ExtrudedDam(id, p) ==
    [kind |-> "extruded", id |-> id,
     dims |-> << p.topWidth, p.bottomWidth, p.height, p.length >>]

\* model.scale.set(scaleX, scaleY, scaleZ), for a model whose box has the
\* size 1 in each direction
GlbScale(p) == << p.length, p.height, p.bottomWidth >>

\* the gltf.scene of a load, as the callback leaves it
GlbModel(id, p) == [kind |-> "glb", id |-> id, dims |-> GlbScale(p)]

\* disabled={!!isExporting}, on each of the three buttons
Disabled == isExporting # Null

\* link.download and doc.save
FileName(kind) ==
    IF kind = Str("csv") THEN "dam_simulation_data.csv"
    ELSE "dam_analysis_report.pdf"

\* the panels after their first rendering, before its effects
InitPanels ==
    /\ params = defaultParameters
    /\ pc = "ready"
    /\ locals = NotReturned
    /\ results = NotReturned
    /\ callerParams = [c \in Callers |-> defaultParameters]
    /\ CallersReady
    /\ PageNotMounted
    /\ ServerStarted
    /\ viewerParameters = defaultParameters
    /\ useGLB = TRUE
    /\ glbLoaded = FALSE
    /\ effectDue = TRUE
    /\ scene = {}
    /\ damMeshRef = Null
    /\ glbModelRef = Null
    /\ pendingLoads = {}
    /\ created = 0
    /\ viewerEvents = 0
    /\ viewerLast = "mounted"
    /\ isExporting = Null
    /\ exportRunning = Null
    /\ downloads = << >>

\* the dam effect: with useGLB, loadGLBModel starts a load with the
\* parameters of this rendering and the extruded dam is removed; without,
\* createExtrudedDam replaces the extruded dam and the model is removed
RunEffect ==
    /\ exportRunning = Null
    /\ effectDue
    /\ effectDue' = FALSE
    /\ created' = created + 1
    /\ viewerLast' = "effect"
    /\ IF useGLB
       THEN /\ pendingLoads' =
                   pendingLoads \cup
                       {[id |-> created + 1, params |-> viewerParameters]}
            /\ scene' = scene \ {damMeshRef}
            /\ damMeshRef' = Null
            /\ UNCHANGED glbModelRef
       ELSE /\ scene' =
                   ((scene \ {damMeshRef}) \cup
                        {ExtrudedDam(created + 1, viewerParameters)})
                       \ {glbModelRef}
            /\ damMeshRef' = ExtrudedDam(created + 1, viewerParameters)
            /\ glbModelRef' = Null
            /\ UNCHANGED pendingLoads
    /\ UNCHANGED << calculatorVars, callerVars, serverVars, pageVars,
                    exportVars, viewerParameters, useGLB, glbLoaded,
                    viewerEvents >>

\* the onLoad callback of loader.load: the model before is removed, the
\* new one is scaled from the parameters the load was started with and
\* added, setGlbLoaded(true); useGLB, damMeshRef and the other loads under
\* way are not looked at
LoadSucceeded(load) ==
    /\ exportRunning = Null
    /\ scene' = (scene \ {glbModelRef}) \cup {GlbModel(load.id, load.params)}
    /\ glbModelRef' = GlbModel(load.id, load.params)
    /\ glbLoaded' = TRUE
    /\ pendingLoads' = pendingLoads \ {load}
    /\ viewerLast' = "loaded"
    /\ UNCHANGED << calculatorVars, callerVars, serverVars, pageVars,
                    exportVars, viewerParameters, useGLB, effectDue,
                    damMeshRef, created, viewerEvents >>

\* the error is logged and the state left as it is
LoadFailed_ignored(load) ==
    /\ exportRunning = Null
    /\ ~effectDue
    /\ pendingLoads' = pendingLoads \ {load}
    /\ viewerLast' = "failed"
    /\ UNCHANGED << calculatorVars, callerVars, serverVars, pageVars,
                    exportVars, viewerParameters, useGLB, glbLoaded,
                    effectDue, scene, damMeshRef, glbModelRef, created,
                    viewerEvents >>

\* the onError callback of loader.load: setGlbLoaded(false),
\* setUseGLB(false); the effect is due if useGLB changed
LoadFailed(load) ==
    /\ exportRunning = Null
    /\ ~effectDue
    /\ glbLoaded' = FALSE
    /\ useGLB' = FALSE
    /\ effectDue' = useGLB
    /\ pendingLoads' = pendingLoads \ {load}
    /\ viewerLast' = "failed"
    /\ UNCHANGED << calculatorVars, callerVars, serverVars, pageVars,
                    exportVars, viewerParameters, scene, damMeshRef,
                    glbModelRef, created, viewerEvents >>

\* the switch "Use 3D Model": onCheckedChange={setUseGLB}
SetUseGLB(checked) ==
    /\ exportRunning = Null
    /\ ~effectDue
    /\ viewerEvents < MaxViewerEvents
    /\ checked # useGLB
    /\ useGLB' = checked
    /\ effectDue' = TRUE
    /\ viewerEvents' = viewerEvents + 1
    /\ viewerLast' = "switched"
    /\ UNCHANGED << calculatorVars, callerVars, serverVars, pageVars,
                    exportVars, viewerParameters, glbLoaded, scene,
                    damMeshRef, glbModelRef, pendingLoads, created >>

\* the page renders the viewer with a new parameters record (setParameters
\* always gets a new record, whether or not a value differs)
ParametersChange(p) ==
    /\ exportRunning = Null
    /\ ~effectDue
    /\ viewerEvents < MaxViewerEvents
    /\ viewerParameters' = p
    /\ effectDue' = TRUE
    /\ viewerEvents' = viewerEvents + 1
    /\ viewerLast' = "parameters"
    /\ UNCHANGED << calculatorVars, callerVars, serverVars, pageVars,
                    exportVars, useGLB, glbLoaded, scene, damMeshRef,
                    glbModelRef, pendingLoads, created >>

\* a click on "CSV Data" or "PDF Report": exportCSV or exportPDF begins
\* with setIsExporting
ExportStart(kind) ==
    /\ ~Disabled
    /\ exportRunning = Null
    /\ Len(downloads) < MaxDownloads
    /\ isExporting' = kind
    /\ exportRunning' = kind
    /\ UNCHANGED << calculatorVars, callerVars, serverVars, pageVars,
                    viewerVars, downloads >>

\* the handler reaches its end: the file is saved, setIsExporting(null)
ExportReturns ==
    /\ exportRunning # Null
    /\ downloads' = Append(downloads, FileName(exportRunning))
    /\ isExporting' = Null
    /\ exportRunning' = Null
    /\ UNCHANGED << calculatorVars, callerVars, serverVars, pageVars,
                    viewerVars >>

\* a statement of the handler throws, before the file is saved or after:
\* the statements after it, setIsExporting(null) among them, do not run
ExportThrows(saved) ==
    /\ exportRunning # Null
    /\ downloads' =
           IF saved THEN Append(downloads, FileName(exportRunning))
           ELSE downloads
    /\ exportRunning' = Null
    /\ UNCHANGED << calculatorVars, callerVars, serverVars, pageVars,
                    viewerVars, isExporting >>

\* a click on "3D Model": onExportGLB, which saves dam_model.glb
ExportGLB ==
    /\ ~Disabled
    /\ exportRunning = Null
    /\ Len(downloads) < MaxDownloads
    /\ downloads' = Append(downloads, "dam_model.glb")
    /\ UNCHANGED << calculatorVars, callerVars, serverVars, pageVars,
                    viewerVars, isExporting, exportRunning >>

NextPanels ==
    \/ RunEffect
    \/ \E load \in pendingLoads : LoadSucceeded(load)
    \/ \E load \in pendingLoads : LoadFailed(load)
    \/ \E checked \in BOOLEAN : SetUseGLB(checked)
    \/ \E p \in ViewerDams : ParametersChange(p)
    \/ \E kind \in {Str("csv"), Str("pdf")} : ExportStart(kind)
    \/ ExportReturns
    \/ \E saved \in BOOLEAN : ExportThrows(saved)
    \/ ExportGLB

SpecPanels == InitPanels /\ [][NextPanels]_vars

\* the effect that is due runs, and a handler that runs comes to its end
SpecPanelsFair ==
    /\ InitPanels
    /\ [][NextPanels]_vars
    /\ WF_vars(RunEffect)
    /\ WF_vars(ExportReturns \/ \E saved \in BOOLEAN : ExportThrows(saved))

(* C22: whenever a load of /Dam.glb fails, the viewer sets useGLB and      *)
(* glbLoaded to false, and a failed load is eventually followed by an      *)
(* extruded dam in the scene that is made from the current parameters.     *)
C22_FailedLoadFallsBack ==
    /\ [][(viewerLast' = "failed" /\ pendingLoads' # pendingLoads) =>
              (~useGLB' /\ ~glbLoaded')]_vars
    /\ (viewerLast = "failed") ~>
           (/\ damMeshRef \in scene
            /\ damMeshRef.kind = "extruded"
            /\ damMeshRef.dims = ExtrudedDam(0, viewerParameters).dims)

\* the only load has failed, nothing was switched by the user, and the
\* effect has put the extruded dam of the parameters into the scene
C22_Witness ==
    /\ viewerEvents = 0
    /\ viewerLast = "effect"
    /\ pendingLoads = {}
    /\ ~useGLB
    /\ ~glbLoaded
    /\ scene = {ExtrudedDam(2, defaultParameters)}
    /\ damMeshRef \in scene

(* C28: in the viewer, whatever the order of switches, parameter changes   *)
(* and load callbacks, the scene holds at most one dam: never an extruded  *)
(* dam together with a model, and never two models.                        *)
C28_OneDamRepresentation == Cardinality(scene) <= 1

(* C29: in the viewer with useGLB on, once no load is under way and no     *)
(* effect is due, the model in the scene is scaled from the current        *)
(* parameters, in whatever order the loads called back.                    *)
C29_ModelScaledFromLatest ==
    (useGLB /\ ~effectDue /\ pendingLoads = {}) =>
        \A o \in scene :
            (o.kind = "glb") => (o.dims = GlbScale(viewerParameters))

(* C30: in the export panel, isExporting is non-null only while an export  *)
(* handler is running: every export that has started and ended, one that   *)
(* failed included, has set isExporting back to null and the buttons are   *)
(* enabled again.                                                          *)
C30_ExportingOnlyWhileRunning ==
    (exportRunning = Null) => (isExporting = Null /\ ~Disabled)

====
